---- MODULE Spec2Model ----
(***************************************************************************)
(* Timeline audio engine of webmix: the transport/scheduler, the active    *)
(* voice set and the offline renderer.  The repository holds two engines   *)
(* (src/utils/audioEngine.ts, driven by the App in src/unnamed/part_001,   *)
(* and src/services/AudioEngine.ts, driven by src/App.tsx); a running      *)
(* program holds exactly one of them, chosen in Init.                      *)
(*                                                                         *)
(* Time is counted in whole steps of half a second, and every timeline     *)
(* position, clip start, clip duration and clock value is an even number   *)
(* of steps, so that multiplying or dividing by a playback rate of 0.5, 1  *)
(* or 2 is exact.  A playback rate is stored in halves (1, 2, 4 stand for  *)
(* 0.5, 1.0, 2.0; 0 stands for a missing rate).                            *)
(***************************************************************************)
EXTENDS Integers, Sequences, FiniteSets, TLC

\* ---------------------------------------------------------------- bounds
MaxT == 1
MaxDur == 2
BufDur == 3
MaxClock == 1
MaxPlays == 2

\* ------------------------------------------------------ program constants
DefaultVolume == 8
SampleRate == 44100
\* new OfflineAudioContext(2, ...)
OfflineChannels == 2
\* Math.max(0.01, track.effects.delayTime), in hundredths of a second
MinDelayTime == 1

\* ---------------------------------------------------------- input domains
Times == {2 * i : i \in 0..MaxT}
StartTimes == Times
\* A position no clip reaches, even on a track played at half speed
PastEveryClip == 2 * MaxT + 4 * MaxDur + 2
\* The positions play is called at
SeekTimes == Times \cup {PastEveryClip}
Durations == {2 * i : i \in 0..MaxDur}
Offsets == {0, BufDur - 1}
Rates == {1, 2, 4}
Engines == {"utils", "services"}
\* The track whose mute switch the user changes
EditedTracks == {"t1"}
\* The lengths rendered: one at which the last clips start, one beyond it
RenderTotals == {2 * MaxT, 2 * MaxT + 2}

TheBuffer == [id |-> "b1", duration |-> BufDur]

\* types.ts AudioClip; services clips carry buffer.id as bufferId
FirstClips ==
  [id : {1}, trackId : {"t1"}, buffer : {TheBuffer},
   startTime : StartTimes, duration : Durations, offset : Offsets]

SecondClips ==
  [id : {2}, trackId : {"t2", "t3"}, buffer : {TheBuffer},
   startTime : {2 * MaxT}, duration : {2 * MaxDur}, offset : {0}]

ClipLists == {<<>>} \cup {<<a, b>> : a \in FirstClips, b \in SecondClips}

\* types.ts TrackEffects (eq.low/mid/high and echo.time/feedback/amount in the utils
\* engine): EQ gains in dB, delay time, feedback and mix in hundredths.
\* The effects of a track as the Apps create it
DefaultEffects(eng) ==
  IF eng = "utils"
  THEN [eqLow |-> 0, eqMid |-> 0, eqHigh |-> 0,
        delayTime |-> 20, delayFeedback |-> 0, delayMix |-> 0]
  ELSE [eqLow |-> 0, eqMid |-> 0, eqHigh |-> 0,
        delayTime |-> 30, delayFeedback |-> 30, delayMix |-> 0]

\* The effects of the second track: in the utils App the ends of the effect panel's
\* sliders, in the services App what handleLoadProject takes from a project file
\* edited by hand
EditedEffects(eng) ==
  IF eng = "utils"
  THEN [eqLow |-> -20, eqMid |-> 0, eqHigh |-> 20,
        delayTime |-> 0, delayFeedback |-> 90, delayMix |-> 100]
  ELSE [eqLow |-> -30, eqMid |-> 0, eqHigh |-> 30,
        delayTime |-> 0, delayFeedback |-> 150, delayMix |-> 120]

\* types.ts Track (muted is isMuted in the services engine)
NewTrack(id, rate, effects) ==
  [id |-> id, muted |-> FALSE, playbackRate |-> rate, volume |-> DefaultVolume,
   effects |-> effects]

NoTrack ==
  [id |-> "none", muted |-> FALSE, playbackRate |-> 0, volume |-> 0,
   effects |-> DefaultEffects("utils")]

VARIABLES
  engine,         \* which engine module the program imports
  clips,          \* project state of the App: the clip list
  tracks,         \* project state of the App: the track list
  context,        \* the AudioContext exists
  clock,          \* context.currentTime
  activeSources,  \* the engine's set of AudioBufferSourceNodes (voices)
  ended,          \* voices that have finished or were stopped, 'ended' event not yet dispatched
  retired,        \* voices whose onended callback has run
  trackChains,    \* trackChains / trackNodes: track id -> chain parameters
  bufferMap,      \* services engine: the sample store
  startTime,      \* utils engine: private startTime
  pausedAt,       \* utils engine: private pausedAt
  isPlaying,      \* utils engine: private isPlaying
  playCount,      \* number of play / schedulePlayback calls made so far
  lastPlay,       \* arguments of the most recent play call: position and clock value
  rendered,       \* what the most recent call returned, if it was renderOffline
  last,           \* the most recent call or callback and whether it threw
  firstRender,    \* the log of the first render: its inputs, the engine state, its result
  abuffer,        \* the AudioBuffer handed to bufferToWav
  wav             \* the bytes of the Blob bufferToWav returned

\* Recording (startRecording / stopRecording of the utils engine with handleRecord,
\* recordAudio of the services engine with startRecording of src/App.tsx)
VARIABLES
  mediaRecorder,  \* utils engine: private mediaRecorder, 0 for null, else a recorder
  recorders,      \* the MediaRecorders made so far: state, onstop handler, stream
  starts,         \* getUserMedia requests not yet answered
  promises,       \* the promises of stopRecording / recordAudio and their handlers
  isRecording,    \* App state: isRecording
  recorded,       \* number of clips the App added from recordings
  recCalls,       \* number of clicks on a record button so far
  recLast         \* the most recent step of a recording and what it did

mixVars == <<engine, clips, tracks, context, clock, activeSources, ended, retired,
             trackChains, bufferMap, startTime, pausedAt, isPlaying, playCount,
             lastPlay, rendered, last, firstRender, abuffer, wav>>

recVars == <<mediaRecorder, recorders, starts, promises, isRecording, recorded,
             recCalls, recLast>>

\* State of the Apps besides the project and the recording flag
VARIABLES
  history,        \* src/App.tsx: the undo stack of {tracks, clips}
  future,         \* src/App.tsx: the redo stack
  currentTime,    \* App state: the playhead position
  selectedClipId, \* App state: the selected clip, 0 for null
  draggingClipId, \* part_001: the clip being dragged, 0 for null
  uiIsPlaying,    \* App state: isPlaying
  uiLast          \* the most recent handler of the App and what it did

appVars ==
  <<history, future, currentTime, selectedClipId, draggingClipId, uiIsPlaying, uiLast>>

\* What the transport, the renderer and the encoder leave alone
sideVars == <<recVars, appVars>>

vars == <<mixVars, sideVars>>

RecOp(name) == [op |-> name, alert |-> FALSE, recorder |-> 0, promise |-> 0, torn |-> 0]

UiOp(name) == [op |-> name, alert |-> FALSE, at |-> 0]

\* The App as mounted
AppBoot ==
  /\ history = <<>>
  /\ future = <<>>
  /\ currentTime = 0
  /\ selectedClipId = 0
  /\ draggingClipId = 0
  /\ uiIsPlaying = FALSE
  /\ uiLast = UiOp("none")

\* No recording was ever started
RecBoot ==
  /\ mediaRecorder = 0
  /\ recorders = <<>>
  /\ starts = 0
  /\ promises = <<>>
  /\ isRecording = FALSE
  /\ recorded = 0
  /\ recCalls = 0
  /\ recLast = RecOp("none")

NoRender ==
  [done |-> FALSE, total |-> 0, sources |-> {}, chains |-> <<>>, length |-> 0,
   channels |-> 0, silent |-> TRUE]

\* op: the call or callback; id: the voice of an onended callback; thrown: the call
\* raised an error to its caller; stopped: how many voices the call found in the
\* active set and stopped; caught: a source.stop() threw and the error was swallowed
Op(name) ==
  [op |-> name, id |-> <<0, 0>>, thrown |-> FALSE, stopped |-> 0, caught |-> FALSE]

\* The log of the first render, not kept, or kept and still empty
LogOff == [state |-> "off"]
LogEmpty == [state |-> "empty"]

\* No buffer has been handed to bufferToWav
NoBuffer == [numberOfChannels |-> 0, sampleRate |-> 0, length |-> 0, channels |-> <<>>]

\* The program as constructed, given the clip lists the App may hold, the playback
\* rates the first track may have in the utils App, and the log
Boot(clipLists, rates, log) ==
  /\ engine \in Engines
  /\ clips \in clipLists
  /\ firstRender = log
  /\ wav = <<>>
  /\ \E rate \in (IF engine = "utils" THEN rates ELSE {2}) :
       tracks = <<NewTrack("t1", rate, DefaultEffects(engine)),
                  NewTrack("t2", 2, EditedEffects(engine))>>
  /\ context = (engine = "services")
  /\ clock = 0
  /\ activeSources = {}
  /\ ended = {}
  /\ retired = {}
  /\ trackChains = <<>>
  /\ bufferMap = <<>>
  /\ startTime = 0
  /\ pausedAt = 0
  /\ isPlaying = FALSE
  /\ playCount = 0
  /\ lastPlay = [at |-> 0, now |-> 0]
  /\ rendered = NoRender
  /\ last = Op("init")
  /\ RecBoot
  /\ AppBoot

Init == Boot(ClipLists, Rates, LogOff) /\ abuffer = NoBuffer

\* ------------------------------------------------------------ arithmetic
Min(a, b) == IF a < b THEN a ELSE b
Max(a, b) == IF a > b THEN a ELSE b

\* x / rate and x * rate for a rate stored in halves
DivRate(x, rate) == (2 * x) \div rate
MulRate(x, rate) == (x * rate) \div 2

\* ------------------------------------------------------- shared helpers
\* tracks.find(t => t.id === clip.trackId): the first match, or undefined
FindTrack(trks, trackId) ==
  IF \E i \in 1..Len(trks) : trks[i].id = trackId
  THEN trks[CHOOSE i \in 1..Len(trks) :
              /\ trks[i].id = trackId
              /\ \A j \in 1..(i - 1) : trks[j].id # trackId]
  ELSE NoTrack

\* track.playbackRate || 1.0
PlaybackRate(track) == IF track.playbackRate = 0 THEN 2 ELSE track.playbackRate

\* an AudioBufferSourceNode that start() was called on
Voice(gen, clip, when, offset, duration, rate, dest) ==
  [id |-> <<gen, clip.id>>, buffer |-> clip.buffer, when |-> when,
   offset |-> offset, duration |-> duration, rate |-> rate, dest |-> dest]

VoiceIds(S) == {v.id : v \in S}

\* source.start(when, offset, duration) raises a RangeError on a negative argument
StartThrows(when, offset, duration) == when < 0 \/ offset < 0 \/ duration < 0

\* The part of the buffer a voice plays: duration, cut at the end of the buffer
PlayLength(v) == Min(v.duration, Max(v.buffer.duration - v.offset, 0))

\* The voice has played to its end at clock value t
HasFinished(v, t) == t >= v.when /\ (t - v.when) * v.rate >= 2 * PlayLength(v)

\* forEach(source => { try { source.stop(); } catch (e) {} }): every source is
\* visited whichever of them throw, and the loop completes
StopEachNoCatch(sources, throwers) ==
  [completed |-> throwers = {}, stopped |-> VoiceIds(sources), caught |-> FALSE]

StopEach(sources, throwers) ==
  [completed |-> TRUE, stopped |-> VoiceIds(sources), caught |-> throwers # {}]

\* source.onended = () => this.activeSources.delete(source)
OnEndedClearsAll(sources, id) == {}

OnEndedCallback(sources, id) == {v \in sources : v.id # id}

\* ------------------------------------------------- utils/audioEngine.ts
\* volume.gain target of updateTrackParams
TargetVol(track) == IF track.muted THEN 0 ELSE track.volume

\* The connect() calls of createTrackChain
Wiring ==
  {<<"input", "eqLow">>, <<"eqLow", "eqMid">>, <<"eqMid", "eqHigh">>,
   <<"eqHigh", "volume">>, <<"eqHigh", "delay">>, <<"delay", "delayFeedback">>,
   <<"delayFeedback", "delay">>, <<"delay", "delayWet">>, <<"delayWet", "volume">>,
   <<"volume", "master">>}

\* Fresh nodes, wired, with the parameter values nodes are created with (gain 1,
\* filter gain 0, delay 0).  nodes names the node objects: the n-th chain the engine
\* creates holds the n-th set of nodes.
NewNodes(chains, wiring) ==
  [nodes |-> Cardinality(DOMAIN chains) + 1, wiring |-> wiring, volume |-> 10,
   eqLow |-> 0, eqMid |-> 0, eqHigh |-> 0,
   delayTime |-> 0, delayFeedback |-> 100, delayWet |-> 100]

\* createTrackChain(trackId)
CreateTrackChain(chains) == NewNodes(chains, Wiring)

\* let chain = this.trackChains.get(track.id); if (!chain) chain = createTrackChain(..)
ChainOfRebuilt(chains, trackId) ==
  [CreateTrackChain(chains) EXCEPT
     !.nodes = IF trackId \in DOMAIN chains THEN chains[trackId].nodes + Cardinality(DOMAIN chains)
               ELSE Cardinality(DOMAIN chains) + 1]

ChainOf(chains, trackId) ==
  IF trackId \in DOMAIN chains THEN chains[trackId] ELSE CreateTrackChain(chains)

\* The parameter writes of updateTrackParams (utils) on a chain
WriteParams(chain, track) ==
  [chain EXCEPT !.volume = TargetVol(track),
                !.eqLow = track.effects.eqLow,
                !.eqMid = track.effects.eqMid,
                !.eqHigh = track.effects.eqHigh,
                !.delayTime = track.effects.delayTime,
                !.delayFeedback = track.effects.delayFeedback,
                !.delayWet = track.effects.delayMix]

\* updateTrackParams(track) of the utils engine, the context existing
UpdateChain(chains, track) ==
  [id \in (DOMAIN chains) \cup {track.id} |->
     IF id = track.id THEN WriteParams(ChainOf(chains, id), track) ELSE chains[id]]

RECURSIVE UpdateChains(_, _, _)
\* tracks.forEach(t => this.updateTrackParams(t))
UpdateChains(chains, trks, i) ==
  IF i > Len(trks) THEN chains
  ELSE UpdateChains(UpdateChain(chains, trks[i]), trks, i + 1)

\* if (!track || track.muted) return;
TrackSkippedIgnoringMute(track) == track = NoTrack

TrackSkipped(track) == track = NoTrack \/ track.muted

EffectiveDuration(clip, rate) == DivRate(clip.duration, rate)

InThePastOrStarted(clip, rate, startOffset) == clip.startTime < startOffset

\* if (absoluteEndTime < startOffset) return;
InThePast(clip, rate, startOffset) ==
  clip.startTime + EffectiveDuration(clip, rate) < startOffset

WhenToStartDrifting(clip, startOffset, now) ==
  IF clip.startTime >= startOffset
  THEN now + (clip.startTime - pausedAt)
  ELSE now

WhenToStart(clip, startOffset, now) ==
  IF clip.startTime >= startOffset
  THEN now + (clip.startTime - startOffset)
  ELSE now

TimePassedInBufferNoRate(clip, rate, startOffset) == startOffset - clip.startTime

TimePassedInBuffer(clip, rate, startOffset) ==
  MulRate(startOffset - clip.startTime, rate)

OffsetInBuffer(clip, rate, startOffset) ==
  IF clip.startTime >= startOffset
  THEN clip.offset
  ELSE clip.offset + TimePassedInBuffer(clip, rate, startOffset)

DurationOfBufferToPlay(clip, rate, startOffset) ==
  IF clip.startTime >= startOffset
  THEN clip.duration
  ELSE clip.duration - TimePassedInBuffer(clip, rate, startOffset)

\* if (durationOfBufferToPlay > 0 && offsetInBuffer < clip.buffer.duration)
CanStartZeroLength(duration, offset, bufferDuration) ==
  duration >= 0 /\ offset < bufferDuration

CanStartAnyOffset(duration, offset, bufferDuration) == duration > 0

CanStart(duration, offset, bufferDuration) ==
  duration > 0 /\ offset < bufferDuration

\* The body of clips.forEach in play: the voices (none or one) it adds for one clip
ScheduleClip(clip, trks, chains, startOffset, now, gen) ==
  LET track == FindTrack(trks, clip.trackId)
      rate == PlaybackRate(track)
      dest == IF clip.trackId \in DOMAIN chains THEN clip.trackId ELSE "master"
      when == WhenToStart(clip, startOffset, now)
      off == OffsetInBuffer(clip, rate, startOffset)
      dur == DurationOfBufferToPlay(clip, rate, startOffset)
  IN IF TrackSkipped(track) THEN {}
     ELSE IF InThePast(clip, rate, startOffset) THEN {}
     ELSE IF CanStart(dur, off, clip.buffer.duration) /\ ~StartThrows(when, off, dur)
          THEN {Voice(gen, clip, when, off, dur, rate, dest)}
          ELSE {}

ScheduleClips(cls, trks, chains, startOffset, now, gen) ==
  UNION {ScheduleClip(cls[i], trks, chains, startOffset, now, gen) : i \in 1..Len(cls)}

\* getCurrentTime()
GetCurrentTimeRunning == clock - startTime

GetCurrentTime ==
  IF ~isPlaying \/ ~context THEN pausedAt ELSE clock - startTime

\* stop(): the state it leaves, given whether already finished voices throw when stopped
StopOutcome(throws) ==
  LET throwers == IF throws THEN {v \in activeSources : v.id \in ended} ELSE {}
      r == StopEach(activeSources, throwers)
  IN IF r.completed
     THEN [completed |-> TRUE, activeSources |-> {},
           ended |-> ended \cup r.stopped, isPlaying |-> FALSE,
           stopped |-> Cardinality(r.stopped), caught |-> r.caught]
     ELSE [completed |-> FALSE, activeSources |-> activeSources,
           ended |-> ended, isPlaying |-> isPlaying,
           stopped |-> 0, caught |-> FALSE]

StopIfPlayingSkipped(throws) ==
  [completed |-> TRUE, activeSources |-> activeSources,
   ended |-> ended, isPlaying |-> isPlaying, stopped |-> 0, caught |-> FALSE]

\* if (this.isPlaying) this.stop();
StopIfPlaying(throws) ==
  IF isPlaying THEN StopOutcome(throws)
  ELSE [completed |-> TRUE, activeSources |-> activeSources,
        ended |-> ended, isPlaying |-> isPlaying, stopped |-> 0, caught |-> FALSE]

\* this.isPlaying = true;  in play, whatever the clips are
PlayingIfClips(cls) == cls # <<>>

PlayingAfterPlay(cls) == TRUE

\* init(), reached through getContext() / decodeAudioData()
InitContext ==
  /\ engine = "utils"
  /\ ~context
  /\ context' = TRUE
  /\ last' = Op("initContext")
  /\ UNCHANGED <<engine, clips, tracks, clock, activeSources, ended, retired,
                 trackChains, bufferMap, startTime, pausedAt, isPlaying,
                 playCount, lastPlay>>
  /\ rendered' = NoRender
  /\ UNCHANGED <<firstRender, abuffer, wav>>
  /\ UNCHANGED sideVars

\* handleTrackUpdate of the App, with the effect that follows it:
\* tracks.forEach(t => audioEngine.updateTrackParams(t)), which returns at once
\* while there is no context
HandleTrackUpdate(id, muted) ==
  /\ engine = "utils"
  /\ \E i \in 1..Len(tracks) :
       /\ tracks[i].id = id
       /\ tracks' = [tracks EXCEPT ![i].muted = muted]
  /\ tracks' # tracks
  /\ trackChains' = IF context THEN UpdateChains(trackChains, tracks', 1)
                    ELSE trackChains
  /\ last' = Op("update")
  /\ UNCHANGED <<engine, clips, context, clock, activeSources, ended, retired,
                 bufferMap, startTime, pausedAt, isPlaying, playCount, lastPlay>>
  /\ rendered' = NoRender
  /\ UNCHANGED <<firstRender, abuffer, wav>>
  /\ UNCHANGED sideVars

\* The body of play(cls, trks, startOffset), entered in the state s that the stop
\* before it left
PlayFrom(s, cls, trks, startOffset) ==
  LET chains == UpdateChains(trackChains, trks, 1)
      gen == playCount + 1
  IN IF ~s.completed
     THEN /\ last' = [Op("play") EXCEPT !.thrown = TRUE]
          /\ UNCHANGED <<context, activeSources, ended, trackChains, startTime,
                         pausedAt, isPlaying, playCount, lastPlay>>
     ELSE /\ context' = TRUE
          /\ isPlaying' = PlayingAfterPlay(cls)
          /\ startTime' = clock - startOffset
          /\ pausedAt' = startOffset
          /\ trackChains' = chains
          /\ activeSources' =
               s.activeSources \cup
               ScheduleClips(cls, trks, chains, startOffset, clock, gen)
          /\ ended' = s.ended
          /\ playCount' = gen
          /\ lastPlay' = [at |-> startOffset, now |-> clock]
          /\ last' = [Op("play") EXCEPT !.stopped = s.stopped, !.caught = s.caught]

\* play(clips, tracks, startOffset), called with the App's clips and tracks
Play(startOffset, throws) ==
  /\ engine = "utils"
  /\ playCount < MaxPlays
  /\ PlayFrom(StopIfPlaying(throws), clips, tracks, startOffset)
  /\ UNCHANGED <<engine, clips, tracks, clock, retired, bufferMap>>
  /\ rendered' = NoRender
  /\ UNCHANGED <<firstRender, abuffer, wav>>
  /\ UNCHANGED sideVars

\* stop()
Stop(throws) ==
  /\ engine = "utils"
  /\ LET s == StopOutcome(throws)
     IN /\ activeSources' = s.activeSources
        /\ ended' = s.ended
        /\ isPlaying' = s.isPlaying
        /\ last' = [Op("stop") EXCEPT !.thrown = ~s.completed,
                                      !.stopped = s.stopped, !.caught = s.caught]
  /\ UNCHANGED <<engine, clips, tracks, context, clock, retired, trackChains,
                 bufferMap, startTime, pausedAt, playCount, lastPlay>>
  /\ rendered' = NoRender
  /\ UNCHANGED <<firstRender, abuffer, wav>>
  /\ UNCHANGED sideVars

\* if (!track || track.muted) return;  in renderOffline
OfflineTrackSkipped(track) == track = NoTrack \/ track.muted

\* source.start(clip.startTime, clip.offset, clip.duration) on a source of the
\* offline context
StartedSourceFromZero(clip, buffer, rate, dest) ==
  [clip |-> clip.id, buffer |-> buffer, when |-> clip.startTime,
   offset |-> 0, duration |-> clip.duration, rate |-> rate, dest |-> dest]

StartedSource(clip, buffer, rate, dest) ==
  [clip |-> clip.id, buffer |-> buffer, when |-> clip.startTime,
   offset |-> clip.offset, duration |-> clip.duration, rate |-> rate, dest |-> dest]

\* The body of clips.forEach in renderOffline: the sources it starts for one clip
OfflineSource(clip, trks) ==
  LET track == FindTrack(trks, clip.trackId)
  IN IF OfflineTrackSkipped(track) THEN {}
     ELSE {StartedSource(clip, clip.buffer, PlaybackRate(track), clip.trackId)}

\* Math.ceil(totalDuration * sampleRate), totalDuration counted in half seconds
LengthInSamples(totalDuration) == (totalDuration * SampleRate + 1) \div 2

\* The body of tracks.forEach in renderOffline: the chain built for one track in the
\* offline context, its parameters set as values
OfflineVolume(track) == IF track.muted THEN 0 ELSE track.volume

\* The connect() calls of tracks.forEach in renderOffline
OfflineWiring ==
  {<<"input", "eqLow">>, <<"eqLow", "eqMid">>, <<"eqMid", "eqHigh">>,
   <<"eqHigh", "volume">>, <<"eqHigh", "delay">>, <<"delay", "delayFeedback">>,
   <<"delayFeedback", "delay">>, <<"delay", "delayWet">>, <<"delayWet", "volume">>,
   <<"volume", "master">>}

OfflineChain(track) ==
  [wiring |-> OfflineWiring, volume |-> OfflineVolume(track),
   eqLow |-> track.effects.eqLow, eqMid |-> track.effects.eqMid,
   eqHigh |-> track.effects.eqHigh, delayTime |-> track.effects.delayTime,
   delayFeedback |-> track.effects.delayFeedback,
   delayWet |-> track.effects.delayMix]

RECURSIVE OfflineTrackInputs(_, _, _)
\* tracks.forEach(track => { ...; offlineTrackInputs.set(track.id, input) })
OfflineTrackInputs(chains, trks, i) ==
  IF i > Len(trks) THEN chains
  ELSE OfflineTrackInputs(
         [id \in (DOMAIN chains) \cup {trks[i].id} |->
            IF id = trks[i].id THEN OfflineChain(trks[i]) ELSE chains[id]],
         trks, i + 1)

\* The sources that can put a non-zero sample into the render target: those that
\* start before its end, play a part of their buffer and reach the master bus
\* through a chain whose volume is not 0
Audible(sources, chains, totalDuration) ==
  {src \in sources :
     /\ src.when < totalDuration
     /\ src.duration > 0
     /\ src.offset < src.buffer.duration
     /\ src.dest \in DOMAIN chains
     /\ chains[src.dest].volume # 0}

\* offlineCtx.startRendering() on a context of OfflineChannels channels and
\* lengthInSamples frames: the buffer it resolves to
StartRendering(sources, chains, totalDuration, lengthInSamples) ==
  [done |-> TRUE, total |-> totalDuration, sources |-> sources, chains |-> chains,
   length |-> lengthInSamples, channels |-> OfflineChannels,
   silent |-> Audible(sources, chains, totalDuration) = {}]

\* renderOffline(clips, tracks, totalDuration): what it resolves to
RenderOfflineResult(cls, trks, totalDuration) ==
  StartRendering(UNION {OfflineSource(cls[i], trks) : i \in 1..Len(cls)},
                 OfflineTrackInputs(<<>>, trks, 1),
                 totalDuration, LengthInSamples(totalDuration))

\* The log after a render: the first render made while the log is kept goes into it,
\* with the inputs of the call and the engine state the call was made in
FirstRenderAfter(log, result) ==
  IF log.state = "empty"
  THEN [state |-> "full", clips |-> clips, tracks |-> tracks, store |-> bufferMap,
        clock |-> clock, position |-> lastPlay.at,
        voices |-> Cardinality(activeSources),
        result |-> result]
  ELSE log

\* renderOffline(clips, tracks, totalDuration)
RenderOffline(totalDuration) ==
  /\ engine = "utils"
  /\ rendered' = RenderOfflineResult(clips, tracks, totalDuration)
  /\ rendered' # rendered
  /\ last' = Op("render")
  /\ UNCHANGED <<engine, clips, tracks, context, clock, activeSources, ended,
                 retired, trackChains, bufferMap, startTime, pausedAt, isPlaying,
                 playCount, lastPlay>>
  /\ firstRender' = FirstRenderAfter(firstRender, rendered')
  /\ UNCHANGED <<abuffer, wav>>
  /\ UNCHANGED sideVars

\* --------------------------------------------- services/AudioEngine.ts
\* addBuffer(id, buffer)
AddBuffer(buffer) ==
  /\ engine = "services"
  /\ bufferMap' =
       [id \in (DOMAIN bufferMap) \cup {buffer.id} |->
          IF id = buffer.id THEN buffer ELSE bufferMap[id]]
  /\ bufferMap' # bufferMap
  /\ last' = Op("addBuffer")
  /\ UNCHANGED <<engine, clips, tracks, context, clock, activeSources, ended,
                 retired, trackChains, startTime, pausedAt, isPlaying, playCount,
                 lastPlay>>
  /\ rendered' = NoRender
  /\ UNCHANGED <<firstRender, abuffer, wav>>
  /\ UNCHANGED sideVars

\* The connect() calls of setupTrack
SvcWiring ==
  {<<"input", "eqLow">>, <<"eqLow", "eqMid">>, <<"eqMid", "eqHigh">>,
   <<"eqHigh", "volume">>, <<"eqHigh", "delay">>, <<"delay", "delayFeedback">>,
   <<"delayFeedback", "delay">>, <<"delay", "delayWet">>, <<"delayWet", "volume">>,
   <<"volume", "master">>}

\* const dTime = Math.max(0.01, track.effects.delayTime)
DTime(track) == Max(MinDelayTime, track.effects.delayTime)

\* The setTargetAtTime targets of updateTrackParams (services) on a chain
SvcWriteParams(chain, track) ==
  [chain EXCEPT !.volume = TargetVol(track),
                !.eqLow = track.effects.eqLow,
                !.eqMid = track.effects.eqMid,
                !.eqHigh = track.effects.eqHigh,
                !.delayTime = DTime(track),
                !.delayFeedback = track.effects.delayFeedback,
                !.delayWet = track.effects.delayMix]

\* updateTrackParams(track) of the services engine: if (!nodes) return;
SvcUpdateTrackParams(chains, track) ==
  IF track.id \in DOMAIN chains
  THEN [chains EXCEPT ![track.id] = SvcWriteParams(chains[track.id], track)]
  ELSE chains

\* setupTrack(track): create the nodes on first reference, then set the parameters
SetupTrack(chains, track) ==
  IF track.id \in DOMAIN chains
  THEN SvcUpdateTrackParams(chains, track)
  ELSE SvcUpdateTrackParams(
         [id \in (DOMAIN chains) \cup {track.id} |->
            IF id = track.id THEN NewNodes(chains, SvcWiring) ELSE chains[id]],
         track)

RECURSIVE SetupTracks(_, _, _)
\* tracks.forEach(t => this.setupTrack(t))
SetupTracks(chains, trks, i) ==
  IF i > Len(trks) THEN chains
  ELSE SetupTracks(SetupTrack(chains, trks[i]), trks, i + 1)

\* handleTrackUpdate of src/App.tsx: setTracks, then audioEngine.updateTrackParams
SvcHandleTrackUpdate(id, muted) ==
  /\ engine = "services"
  /\ \E i \in 1..Len(tracks) :
       /\ tracks[i].id = id
       /\ tracks' = [tracks EXCEPT ![i].muted = muted]
       /\ trackChains' = SvcUpdateTrackParams(trackChains, tracks'[i])
  /\ tracks' # tracks
  /\ last' = Op("update")
  /\ UNCHANGED <<engine, clips, context, clock, activeSources, ended, retired,
                 bufferMap, startTime, pausedAt, isPlaying, playCount, lastPlay>>
  /\ rendered' = NoRender
  /\ UNCHANGED <<firstRender, abuffer, wav>>
  /\ UNCHANGED sideVars

\* stopAll(): the state it leaves
StopAllOutcome(throws) ==
  LET throwers == IF throws THEN {v \in activeSources : v.id \in ended} ELSE {}
      r == StopEach(activeSources, throwers)
  IN IF r.completed
     THEN [completed |-> TRUE, activeSources |-> {}, ended |-> ended \cup r.stopped,
           stopped |-> Cardinality(r.stopped), caught |-> r.caught]
     ELSE [completed |-> FALSE, activeSources |-> activeSources, ended |-> ended,
           stopped |-> 0, caught |-> FALSE]

\* stopAll()
StopAll(throws) ==
  /\ engine = "services"
  /\ LET s == StopAllOutcome(throws)
     IN /\ activeSources' = s.activeSources
        /\ ended' = s.ended
        /\ last' = [Op("stop") EXCEPT !.thrown = ~s.completed,
                                      !.stopped = s.stopped, !.caught = s.caught]
  /\ UNCHANGED <<engine, clips, tracks, context, clock, retired, trackChains,
                 bufferMap, startTime, pausedAt, isPlaying, playCount, lastPlay>>
  /\ rendered' = NoRender
  /\ UNCHANGED <<firstRender, abuffer, wav>>
  /\ UNCHANGED sideVars

\* playSource(buffer, destination, when, offset, duration)
PlaySource(gen, clip, dest, when, offset, duration) ==
  {Voice(gen, clip, when, offset, duration, 2, dest)}

\* The body of clips.forEach in schedulePlayback
SvcScheduleClip(clip, buffers, chains, startOffset, now, gen) ==
  IF clip.buffer.id \notin DOMAIN buffers \/ clip.trackId \notin DOMAIN chains
  THEN {}
  ELSE IF clip.startTime >= startOffset
       THEN PlaySource(gen, clip, clip.trackId,
                       now + (clip.startTime - startOffset), clip.offset, clip.duration)
       ELSE IF clip.startTime + clip.duration > startOffset
            THEN PlaySource(gen, clip, clip.trackId, now,
                            clip.offset + (startOffset - clip.startTime),
                            clip.duration - (startOffset - clip.startTime))
            ELSE {}

\* schedulePlayback(clips, startOffset, tracks), called with the App's clips and tracks
SchedulePlayback(startOffset, throws) ==
  /\ engine = "services"
  /\ playCount < MaxPlays
  /\ LET s == StopAllOutcome(throws)
         chains == SetupTracks(trackChains, tracks, 1)
         gen == playCount + 1
     IN IF ~s.completed
        THEN /\ last' = [Op("play") EXCEPT !.thrown = TRUE]
             /\ UNCHANGED <<activeSources, ended, trackChains, playCount, lastPlay>>
        ELSE /\ trackChains' = chains
             /\ activeSources' =
                  s.activeSources \cup
                  UNION {SvcScheduleClip(clips[i], bufferMap, chains, startOffset,
                                         clock, gen) : i \in 1..Len(clips)}
             /\ ended' = s.ended
             /\ playCount' = gen
             /\ lastPlay' = [at |-> startOffset, now |-> clock]
             /\ last' = [Op("play") EXCEPT !.stopped = s.stopped, !.caught = s.caught]
  /\ UNCHANGED <<engine, clips, tracks, context, clock, retired, bufferMap,
                 startTime, pausedAt, isPlaying>>
  /\ rendered' = NoRender
  /\ UNCHANGED <<firstRender, abuffer, wav>>
  /\ UNCHANGED sideVars

\* A project file of this session edited by hand: the second track is taken out of
\* state.tracks, state.clips and the assets are as saved
ProjectFiles(cls, trks) ==
  {[tracks |-> SelectSeq(trks, LAMBDA t : t.id # "t2"), clips |-> cls,
    assets |-> {TheBuffer}]}

RECURSIVE AddBuffers(_, _)
\* for (const [id, base64] of Object.entries(project.assets)) addBuffer(id, audioBuf)
AddBuffers(buffers, assets) ==
  IF assets = {} THEN buffers
  ELSE LET b == CHOOSE x \in assets : TRUE
       IN AddBuffers([id \in (DOMAIN buffers) \cup {b.id} |->
                        IF id = b.id THEN b ELSE buffers[id]],
                     assets \ {b})

\* handleLoadProject of src/App.tsx, a project of version 1: the assets go into the
\* sample store, tracks and clips are replaced, then stopAll() and setupTrack for
\* each track of the file
HandleLoadProject(project, throws) ==
  /\ engine = "services"
  /\ project.tracks # tracks
  /\ LET s == StopAllOutcome(throws)
     IN /\ bufferMap' = AddBuffers(bufferMap, project.assets)
        /\ tracks' = project.tracks
        /\ clips' = project.clips
        /\ IF s.completed
           THEN /\ activeSources' = s.activeSources
                /\ ended' = s.ended
                /\ trackChains' = SetupTracks(trackChains, project.tracks, 1)
                /\ last' = [Op("load") EXCEPT !.stopped = s.stopped,
                                              !.caught = s.caught]
           ELSE /\ last' = [Op("load") EXCEPT !.thrown = TRUE]
                /\ UNCHANGED <<activeSources, ended, trackChains>>
  /\ UNCHANGED <<engine, context, clock, retired, startTime, pausedAt, isPlaying,
                 playCount, lastPlay>>
  /\ rendered' = NoRender
  /\ UNCHANGED <<firstRender, abuffer, wav>>
  /\ UNCHANGED sideVars

\* const vol = track.isMuted ? 0 : track.volume;  in exportProject
SvcOfflineVolumeUnmuted(track) == track.volume

SvcOfflineVolume(track) == IF track.muted THEN 0 ELSE track.volume

\* const dTime = Math.max(0.01, track.effects.delayTime);  in exportProject
ExportDTimeUnclamped(track) == track.effects.delayTime

ExportDTime(track) == Max(MinDelayTime, track.effects.delayTime)

\* The connect() calls of tracks.forEach in exportProject
SvcOfflineWiring ==
  {<<"input", "eqLow">>, <<"eqLow", "eqMid">>, <<"eqMid", "eqHigh">>,
   <<"eqHigh", "volume">>, <<"eqHigh", "delay">>, <<"delay", "delayFeedback">>,
   <<"delayFeedback", "delay">>, <<"delay", "delayWet">>, <<"delayWet", "volume">>,
   <<"volume", "master">>}

\* The chain built for one track in exportProject
SvcOfflineChain(track) ==
  [wiring |-> SvcOfflineWiring, volume |-> SvcOfflineVolume(track),
   eqLow |-> track.effects.eqLow, eqMid |-> track.effects.eqMid,
   eqHigh |-> track.effects.eqHigh, delayTime |-> ExportDTime(track),
   delayFeedback |-> track.effects.delayFeedback,
   delayWet |-> track.effects.delayMix]

RECURSIVE OfflineTrackNodes(_, _, _)
\* tracks.forEach(track => { ...; offlineTrackNodes.set(track.id, input) })
OfflineTrackNodes(chains, trks, i) ==
  IF i > Len(trks) THEN chains
  ELSE OfflineTrackNodes(
         [id \in (DOMAIN chains) \cup {trks[i].id} |->
            IF id = trks[i].id THEN SvcOfflineChain(trks[i]) ELSE chains[id]],
         trks, i + 1)

\* if (!buffer || !dest) return;  in exportProject
ExportSkippedLiveChains(clip, buffers, offlineNodes, liveNodes) ==
  clip.buffer.id \notin DOMAIN buffers \/ clip.trackId \notin DOMAIN liveNodes

ExportSkipped(clip, buffers, offlineNodes, liveNodes) ==
  clip.buffer.id \notin DOMAIN buffers \/ clip.trackId \notin DOMAIN offlineNodes

\* The body of clips.forEach in exportProject
SvcOfflineSource(clip, buffers, offlineNodes, liveNodes) ==
  IF ExportSkipped(clip, buffers, offlineNodes, liveNodes) THEN {}
  ELSE {StartedSource(clip, buffers[clip.buffer.id], 2, clip.trackId)}

\* exportProject(clips, tracks, totalDuration): the rendered buffer it encodes
ExportProjectResult(cls, trks, totalDuration, buffers, liveNodes) ==
  LET offlineNodes == OfflineTrackNodes(<<>>, trks, 1)
  IN StartRendering(
       UNION {SvcOfflineSource(cls[i], buffers, offlineNodes, liveNodes) :
                i \in 1..Len(cls)},
       offlineNodes, totalDuration, LengthInSamples(totalDuration))

\* exportProject(clips, tracks, totalDuration)
ExportProject(totalDuration) ==
  /\ engine = "services"
  /\ rendered' = ExportProjectResult(clips, tracks, totalDuration, bufferMap, trackChains)
  /\ rendered' # rendered
  /\ last' = Op("render")
  /\ UNCHANGED <<engine, clips, tracks, context, clock, activeSources, ended,
                 retired, trackChains, bufferMap, startTime, pausedAt, isPlaying,
                 playCount, lastPlay>>
  /\ firstRender' = FirstRenderAfter(firstRender, rendered')
  /\ UNCHANGED <<abuffer, wav>>
  /\ UNCHANGED sideVars

\* ------------------------------------------------- the audio context
\* context.currentTime advances once the context exists
Tick ==
  /\ context
  /\ clock < 2 * MaxClock
  /\ clock' = clock + 2
  /\ UNCHANGED <<engine, clips, tracks, context, activeSources, ended, retired,
                 trackChains, bufferMap, startTime, pausedAt, isPlaying, playCount,
                 lastPlay, rendered, last>>
  /\ UNCHANGED <<firstRender, abuffer, wav>>
  /\ UNCHANGED sideVars

\* A voice plays to its end; its 'ended' event is queued
VoiceEnds(v) ==
  /\ v \in activeSources
  /\ v.id \notin ended
  /\ HasFinished(v, clock)
  /\ ended' = ended \cup {v.id}
  /\ UNCHANGED <<engine, clips, tracks, context, clock, activeSources, retired,
                 trackChains, bufferMap, startTime, pausedAt, isPlaying, playCount,
                 lastPlay, rendered, last>>
  /\ UNCHANGED <<firstRender, abuffer, wav>>
  /\ UNCHANGED sideVars

\* The 'ended' event of a finished or stopped voice is dispatched: source.onended
OnEnded(id) ==
  /\ id \in ended
  /\ activeSources' = OnEndedCallback(activeSources, id)
  /\ ended' = ended \ {id}
  /\ retired' = retired \cup {id}
  /\ last' = [Op("onended") EXCEPT !.id = id]
  /\ UNCHANGED <<engine, clips, tracks, context, clock, trackChains, bufferMap,
                 startTime, pausedAt, isPlaying, playCount, lastPlay, rendered>>
  /\ UNCHANGED <<firstRender, abuffer, wav>>
  /\ UNCHANGED sideVars

Next ==
  \/ InitContext
  \/ \E id \in EditedTracks, muted \in BOOLEAN : HandleTrackUpdate(id, muted)
  \/ \E startOffset \in SeekTimes, throws \in BOOLEAN : Play(startOffset, throws)
  \/ \E throws \in BOOLEAN : Stop(throws)
  \/ \E totalDuration \in RenderTotals : RenderOffline(totalDuration)
  \/ AddBuffer(TheBuffer)
  \/ \E id \in EditedTracks, muted \in BOOLEAN : SvcHandleTrackUpdate(id, muted)
  \/ \E throws \in BOOLEAN : StopAll(throws)
  \/ \E startOffset \in SeekTimes, throws \in BOOLEAN :
       SchedulePlayback(startOffset, throws)
  \/ \E totalDuration \in RenderTotals : ExportProject(totalDuration)
  \/ \E project \in ProjectFiles(clips, tracks), throws \in BOOLEAN :
       HandleLoadProject(project, throws)
  \/ Tick
  \/ \E v \in activeSources : VoiceEnds(v)
  \/ \E id \in ended : OnEnded(id)

Spec == Init /\ [][Next]_vars

\* The same program with the first render logged, for the claims that compare two
\* renders; the clips are two that both engines schedule
RenderClipLists ==
  {<<a, b>> : a \in {c \in FirstClips : /\ c.startTime = 0
                                          /\ c.duration = 2 * MaxDur
                                          /\ c.offset = 0},
              b \in SecondClips}

RenderInit == Boot(RenderClipLists, {1}, LogEmpty) /\ abuffer = NoBuffer

RenderSpec == RenderInit /\ [][Next]_vars

\* ================================================================ claims
\* What the claims speak of, stated from their own words: a clip's track in the
\* tracks of the call, its rate, where the clip ends, and the read offset and the
\* remaining duration at a seek position.
AfterPlay == last.op = "play" /\ ~last.thrown
ClipSet == {clips[i] : i \in 1..Len(clips)}
VoicesOf(clip) == {v \in activeSources : v.id[2] = clip.id}
TrackOf(clip) == FindTrack(tracks, clip.trackId)
HasTrack(clip) == \E i \in 1..Len(tracks) : tracks[i].id = clip.trackId
RateOf(clip) == TrackOf(clip).playbackRate
\* clip.startTime + clip.duration / rate compared with a position, times rate
EndsAfter(clip, at) == clip.startTime * RateOf(clip) + 2 * clip.duration > at * RateOf(clip)
Straddles(clip, at) == clip.startTime < at /\ EndsAfter(clip, at)
ElapsedBuffer(clip, at) == ((at - clip.startTime) * RateOf(clip)) \div 2
ReadOffset(clip, at) ==
  IF clip.startTime >= at THEN clip.offset ELSE clip.offset + ElapsedBuffer(clip, at)
Remaining(clip, at) ==
  IF clip.startTime >= at THEN clip.duration ELSE clip.duration - ElapsedBuffer(clip, at)
Eligible(clip, at) ==
  /\ HasTrack(clip)
  /\ ~TrackOf(clip).muted
  /\ EndsAfter(clip, at)
  /\ Remaining(clip, at) > 0
  /\ ReadOffset(clip, at) < clip.buffer.duration

\* C1: after play / schedulePlayback at position a with the clock at now, every
\* voice of a clip with startTime >= a starts at now + (startTime - a) and reads
\* clip.duration from clip.offset, whatever calls came before.
C1_FutureClipStartsAtOffsetFromNow ==
  AfterPlay =>
    \A clip \in ClipSet : \A v \in VoicesOf(clip) :
      clip.startTime >= lastPlay.at =>
        /\ v.when = lastPlay.now + (clip.startTime - lastPlay.at)
        /\ v.offset = clip.offset
        /\ v.duration = clip.duration

\* C1 witness: a second call, made at a later clock value and another position than
\* the first could have had, has scheduled a clip that starts after the position
C1_Witness ==
  /\ AfterPlay
  /\ playCount = 2
  /\ lastPlay.now > 0
  /\ \E clip \in ClipSet : clip.startTime > lastPlay.at /\ VoicesOf(clip) # {}

\* C2: after play at position a (utils engine), a voice of a clip that straddles a
\* starts at now, reads from clip.offset + (a - startTime) * rate and lasts
\* clip.duration - (a - startTime) * rate, and both are strictly positive.
C2_StraddlingClipOffsetAndRemainder ==
  (engine = "utils" /\ AfterPlay) =>
    \A clip \in ClipSet : \A v \in VoicesOf(clip) :
      (HasTrack(clip) /\ Straddles(clip, lastPlay.at)) =>
        /\ v.when = lastPlay.now
        /\ v.offset = clip.offset + ElapsedBuffer(clip, lastPlay.at)
        /\ v.duration = clip.duration - ElapsedBuffer(clip, lastPlay.at)
        /\ v.offset > 0
        /\ v.duration > 0

\* C2 witness: a straddling clip on a track whose rate is not 1.0 has a voice
C2_Witness ==
  /\ engine = "utils"
  /\ AfterPlay
  /\ \E clip \in ClipSet :
       /\ HasTrack(clip)
       /\ Straddles(clip, lastPlay.at)
       /\ RateOf(clip) # 2
       /\ VoicesOf(clip) # {}

\* C3: after play (utils engine) the active set holds exactly one voice for each
\* eligible clip and nothing else, clips scheduled for the future included; after a
\* stop() it holds no voice.
C3_ActiveSetIsTheEligibleClips ==
  engine = "utils" =>
    /\ AfterPlay =>
         /\ \A clip \in ClipSet :
              Cardinality(VoicesOf(clip)) = IF Eligible(clip, lastPlay.at) THEN 1 ELSE 0
         /\ \A v \in activeSources : \E clip \in ClipSet : v \in VoicesOf(clip)
    /\ last.op = "stop" => Cardinality(activeSources) = 0

\* C3 witness: two voices are active, one of them scheduled for a later instant
C3_Witness ==
  /\ engine = "utils"
  /\ AfterPlay
  /\ Cardinality(activeSources) = 2
  /\ \E v \in activeSources : v.when > clock

\* C4: after stop() / stopAll() the active set is empty, the utils engine is not
\* playing, and no error reached the caller, also when voices of the set had
\* already finished or threw when stopped.
C4_StopEmptiesTheActiveSet ==
  last.op = "stop" =>
    /\ activeSources = {}
    /\ ~last.thrown
    /\ engine = "utils" => ~isPlaying

\* C4 witness: a stop found voices in the set, one of which threw when stopped
C4_Witness == last.op = "stop" /\ last.stopped > 0 /\ last.caught

\* C5: a completion callback removes its own voice from the active set and no
\* other, changes nothing when its voice is no longer in the set, raises no error,
\* and no voice whose callback has run is in the active set.
C5_CompletionCallbackRemovesOnlyItsVoice ==
  /\ [](VoiceIds(activeSources) \cap retired = {})
  /\ [][(last' # last /\ last'.op = "onended") =>
          /\ activeSources' = {v \in activeSources : v.id # last'.id}
          /\ (last'.id \notin VoiceIds(activeSources) => activeSources' = activeSources)
          /\ ~last'.thrown]_vars

\* C5 witness: the callback of a voice of an earlier play call has run while
\* voices of a later call are active
C5_Witness ==
  /\ last.op = "onended"
  /\ last.id[1] < playCount
  /\ activeSources # {}

\* C6: after play / schedulePlayback every voice of the active set was created by
\* this call.
C6_OnlyThisCallsVoices ==
  AfterPlay => \A v \in activeSources : v.id[1] = playCount

\* C6 witness: a call that found voices of an earlier call active has scheduled its own
C6_Witness == AfterPlay /\ last.stopped > 0 /\ activeSources # {}

\* C7: while playing, getCurrentTime() is a + (clock - t0) for the latest
\* play(.., a) made at clock t0 and never decreases as the clock advances; while
\* not playing it does not change as the clock advances.
C7_CurrentTimeFollowsTheClock ==
  /\ []((engine = "utils" /\ isPlaying) =>
          GetCurrentTime = lastPlay.at + (clock - lastPlay.now))
  /\ [][(engine = "utils" /\ clock' # clock /\ lastPlay' = lastPlay) =>
          /\ (isPlaying /\ isPlaying') => GetCurrentTime' >= GetCurrentTime
          /\ (~isPlaying /\ ~isPlaying') => GetCurrentTime' = GetCurrentTime]_vars

\* C7 witness: the clock has advanced during a second play made at a position
\* other than 0
C7_Witness ==
  /\ engine = "utils"
  /\ isPlaying
  /\ playCount = 2
  /\ lastPlay.at > 0
  /\ clock > lastPlay.now

\* C8: in the utils engine no voice and no offline source exists for a clip of a
\* muted track, and a play call gives every eligible clip of an un-muted track a
\* voice.
C8_MutedTracksAreNotScheduled ==
  engine = "utils" =>
    /\ AfterPlay =>
         \A clip \in ClipSet :
           /\ TrackOf(clip).muted => VoicesOf(clip) = {}
           /\ Eligible(clip, lastPlay.at) => VoicesOf(clip) # {}
    /\ rendered.done =>
         \A clip \in ClipSet :
           TrackOf(clip).muted => \A src \in rendered.sources : src.clip # clip.id

\* C8 witness: play has skipped a clip only because its track is muted
C8_Witness ==
  /\ engine = "utils"
  /\ AfterPlay
  /\ \E clip \in ClipSet :
       /\ TrackOf(clip).muted
       /\ EndsAfter(clip, lastPlay.at)
       /\ Remaining(clip, lastPlay.at) > 0
       /\ ReadOffset(clip, lastPlay.at) < clip.buffer.duration
       /\ VoicesOf(clip) = {}

\* C9: after play at position a (utils engine) a clip with
\* startTime + duration / rate <= a has no voice.
C9_PastClipsHaveNoVoice ==
  (engine = "utils" /\ AfterPlay) =>
    \A clip \in ClipSet :
      (HasTrack(clip) /\ ~EndsAfter(clip, lastPlay.at)) => VoicesOf(clip) = {}

\* C9 witness: a clip of positive duration on an audible track ends exactly at the
\* position played from
C9_Witness ==
  /\ engine = "utils"
  /\ AfterPlay
  /\ \E clip \in ClipSet :
       /\ HasTrack(clip)
       /\ ~TrackOf(clip).muted
       /\ clip.duration > 0
       /\ clip.startTime * RateOf(clip) + 2 * clip.duration = lastPlay.at * RateOf(clip)

\* C10: play (utils engine) starts no voice for a clip whose remaining duration is
\* <= 0 or whose read offset exceeds its buffer's duration, raises no error, and
\* still schedules the other clips of the call.
C10_UnplayableClipsAreSkipped ==
  (engine = "utils" /\ last.op = "play") =>
    /\ ~last.thrown
    /\ \A clip \in ClipSet :
         /\ (HasTrack(clip) /\
               (Remaining(clip, lastPlay.at) <= 0 \/
                ReadOffset(clip, lastPlay.at) > clip.buffer.duration))
              => VoicesOf(clip) = {}
         /\ Eligible(clip, lastPlay.at) => VoicesOf(clip) # {}

\* C10 witness: the first clip of the call reads beyond its buffer with time left
\* to play and has no voice, and the clip after it has one
C10_Witness ==
  /\ engine = "utils"
  /\ AfterPlay
  /\ Len(clips) = 2
  /\ ~TrackOf(clips[1]).muted
  /\ EndsAfter(clips[1], lastPlay.at)
  /\ Remaining(clips[1], lastPlay.at) > 0
  /\ ReadOffset(clips[1], lastPlay.at) > clips[1].buffer.duration
  /\ VoicesOf(clips[1]) = {}
  /\ VoicesOf(clips[2]) # {}

\* ---------------------------------------------------------------- C11
\* What the services engine needs of a clip besides its track: its sample
InStore(clip) == clip.buffer.id \in DOMAIN bufferMap
\* A clip schedulePlayback has a voice for: it starts at or after the position, or
\* ends after it
SvcEligible(clip, at) ==
  /\ HasTrack(clip)
  /\ InStore(clip)
  /\ clip.startTime >= at \/ clip.startTime + clip.duration > at
SourcesOf(clip) == {src \in rendered.sources : src.clip = clip.id}

\* C11: in play, schedulePlayback and exportProject a clip whose trackId matches no
\* track of the call's tracks, or (services) whose buffer is not in the sample
\* store, gets no voice and no source, the call raises no error, and every other
\* eligible clip of the call is scheduled; whatever calls came before.
C11_MissingTrackOrBufferIsSkipped ==
  /\ last.op = "play" =>
       /\ ~last.thrown
       /\ \A clip \in ClipSet :
            /\ (~HasTrack(clip) \/ (engine = "services" /\ ~InStore(clip)))
                 => VoicesOf(clip) = {}
            /\ (engine = "utils" /\ Eligible(clip, lastPlay.at)) => VoicesOf(clip) # {}
            /\ (engine = "services" /\ SvcEligible(clip, lastPlay.at))
                 => VoicesOf(clip) # {}
  /\ (engine = "services" /\ rendered.done) =>
       \A clip \in ClipSet :
         /\ (~HasTrack(clip) \/ ~InStore(clip)) => SourcesOf(clip) = {}
         /\ (HasTrack(clip) /\ InStore(clip)) => SourcesOf(clip) # {}

\* ---------------------------------------------------------------- C12
\* The position is at or past the end of the clip on the timeline
PastEnd(clip, at) ==
  at * PlaybackRate(TrackOf(clip)) >=
    clip.startTime * PlaybackRate(TrackOf(clip)) + 2 * clip.duration

\* C12: play (utils engine) at a position past the end of every clip, or with no
\* clips, raises no error and leaves the engine playing with an empty active set,
\* and getCurrentTime() advances from that position with the clock.
C12_SeekPastTheEndKeepsPlaying ==
  (engine = "utils" /\ last.op = "play"
     /\ \A clip \in ClipSet : PastEnd(clip, lastPlay.at)) =>
    /\ ~last.thrown
    /\ isPlaying
    /\ activeSources = {}
    /\ GetCurrentTime = lastPlay.at + (clock - lastPlay.now)

\* C12 witness: clips exist, play was called past the end of all of them while
\* voices of an earlier play were active, and the clock has advanced since
C12_Witness ==
  /\ engine = "utils"
  /\ last.op = "play"
  /\ last.stopped > 0
  /\ clips # <<>>
  /\ \A clip \in ClipSet : PastEnd(clip, lastPlay.at)
  /\ clock > lastPlay.now

\* ---------------------------------------------------------------- C13
\* The one source the claim speaks of: at the clip's startTime, reading
\* [offset, offset + duration] of its buffer, into the offline chain of its track
HasItsOneSource(clip) ==
  /\ Cardinality(SourcesOf(clip)) = 1
  /\ \A src \in SourcesOf(clip) :
       /\ src.when = clip.startTime
       /\ src.offset = clip.offset
       /\ src.duration = clip.duration
       /\ src.buffer = clip.buffer
       /\ src.dest = clip.trackId
       /\ src.dest \in DOMAIN rendered.chains

\* A step that is a call of renderOffline / exportProject
RenderStep == rendered'.done /\ rendered' # rendered

\* C13 as stated: after renderOffline / exportProject every clip whose track is
\* present has exactly one source, at its startTime, reading [offset,
\* offset + duration] of its buffer, routed into its track's offline chain.
C13_EveryClipOfAPresentTrackHasItsSource ==
  rendered.done => \A clip \in ClipSet : HasTrack(clip) => HasItsOneSource(clip)

\* C13 amended: after renderOffline every clip whose track is present and not muted,
\* and after exportProject every clip whose track is present and whose buffer is in
\* the sample store, has exactly that one source, and no other clip has a source;
\* and the call changes neither the live transport state, nor the live chains, nor
\* the active voice set.
C13_OfflineScheduleAndFrame ==
  /\ [](rendered.done =>
          \A clip \in ClipSet :
            IF /\ HasTrack(clip)
               /\ engine = "utils" => ~TrackOf(clip).muted
               /\ engine = "services" => InStore(clip)
            THEN HasItsOneSource(clip)
            ELSE SourcesOf(clip) = {})
  /\ [][RenderStep =>
          UNCHANGED <<isPlaying, startTime, pausedAt, clock, trackChains,
                      activeSources, ended, bufferMap>>]_vars

\* C13 witness: a render made while voices of a live play are active has scheduled
\* two sources, one of them reading from inside its buffer
C13_Witness ==
  /\ rendered.done
  /\ activeSources # {}
  /\ Cardinality(rendered.sources) = 2
  /\ \E src \in rendered.sources : src.offset > 0

\* ---------------------------------------------------------------- C14
\* The latest render had the inputs of the logged first render
SameInputsAsFirst ==
  /\ firstRender.state = "full"
  /\ rendered.done
  /\ firstRender.clips = clips
  /\ firstRender.tracks = tracks
  /\ firstRender.result.total = rendered.total

Unheard(clip, totalDuration) ==
  \/ ~HasTrack(clip)
  \/ TrackOf(clip).muted
  \/ clip.startTime >= totalDuration

\* C15: the render target has ceil(totalDuration * 44100) frames (totalDuration
\* counted in half seconds) on 2 channels whatever the clips are, 220500 frames
\* for 5 seconds, and with no clips, or only clips that are muted, on missing tracks
\* or starting at or beyond totalDuration, every output sample is zero.
C15_RenderLengthAndSilence ==
  /\ LengthInSamples(10) = 220500
  /\ rendered.done =>
       /\ rendered.channels = 2
       /\ 2 * rendered.length >= rendered.total * 44100
       /\ 2 * (rendered.length - 1) < rendered.total * 44100
       /\ (\A clip \in ClipSet : Unheard(clip, rendered.total)) => rendered.silent

\* C15 witness: a render has scheduled sources and is silent all the same: one clip
\* is on a muted track and one starts at the end of the render
C15_Witness ==
  /\ rendered.done
  /\ rendered.silent
  /\ rendered.sources # {}
  /\ \E clip \in ClipSet : HasTrack(clip) /\ TrackOf(clip).muted
  /\ \E clip \in ClipSet :
       HasTrack(clip) /\ ~TrackOf(clip).muted /\ clip.startTime >= rendered.total

\* ---------------------------------------------------------------- C16
\* The wiring the claim names
ClaimedWiring ==
  {<<"input", "eqLow">>, <<"eqLow", "eqMid">>, <<"eqMid", "eqHigh">>,
   <<"eqHigh", "volume">>, <<"volume", "master">>,
   <<"eqHigh", "delay">>,
   <<"delay", "delayFeedback">>, <<"delayFeedback", "delay">>,
   <<"delay", "delayWet">>, <<"delayWet", "volume">>}

\* What a chain is apart from the node objects it is made of
Settings(chain) ==
  [wiring |-> chain.wiring, volume |-> chain.volume, eqLow |-> chain.eqLow,
   eqMid |-> chain.eqMid, eqHigh |-> chain.eqHigh, delayTime |-> chain.delayTime,
   delayFeedback |-> chain.delayFeedback, delayWet |-> chain.delayWet]

\* C16: after renderOffline / exportProject every track of the call has an offline
\* chain with the wiring named in the claim, and where the track has a live chain the
\* offline chain has the same wiring and, parameter by parameter (volume with mute
\* as 0, EQ gains, delay time, feedback, wet mix), the values updateTrackParams set
\* on the live chain for that Track record.
C16_OfflineChainIsAReplica ==
  rendered.done =>
    \A i \in 1..Len(tracks) :
      /\ tracks[i].id \in DOMAIN rendered.chains
      /\ rendered.chains[tracks[i].id].wiring = ClaimedWiring
      /\ rendered.chains[tracks[i].id].volume =
           (IF tracks[i].muted THEN 0 ELSE tracks[i].volume)
      /\ tracks[i].id \in DOMAIN trackChains =>
           Settings(trackChains[tracks[i].id]) = rendered.chains[tracks[i].id]

\* C16 witness: a render was made while both tracks have live chains, one of them
\* muted, the other with a delay time the services engine raises to its minimum
C16_Witness ==
  /\ rendered.done
  /\ \A i \in 1..Len(tracks) : tracks[i].id \in DOMAIN trackChains
  /\ \E i \in 1..Len(tracks) : tracks[i].muted
  /\ \E i \in 1..Len(tracks) :
       tracks[i].effects.delayTime # rendered.chains[tracks[i].id].delayTime

\* ==================================================== bufferToWav (utils)
\* Bytes of the RIFF header bufferToWav writes before the payload
HeaderLen == 44
\* sample * 32768 (negative half) and sample * 32767
NegScale == 32768
PosScale == 32767
\* Frames an encoded buffer has beyond the header's length in bytes
MaxExtra == 2

\* Float samples are multiples of 1 / SampleUnit
SampleUnit == NegScale \div 8

\* Sample values: far outside [-1, 1], the ends, just below -0.5, -0.5, near 0 and 1
Samples ==
  {-3 * SampleUnit, -SampleUnit, -(SampleUnit \div 2) - 1, -(SampleUnit \div 2),
   0, SampleUnit - 1, SampleUnit, 3 * SampleUnit}

\* The two values given to the frames at the start of a long buffer
LeadSamples == {-SampleUnit, SampleUnit - 1}

Lengths == {0, 1} \cup {HeaderLen + k : k \in 0..MaxExtra}

\* An AudioBuffer handed to bufferToWav: getChannelData(c)[f] is channels[c + 1][f + 1].
\* The frames at the start hold one value, the frames from HeaderLen on the values
\* of rest.
AudioBuffer(c, n, r, lead, rest) ==
  [numberOfChannels |-> c, sampleRate |-> r, length |-> n,
   channels |-> [i \in 1..c |-> [f \in 1..n |->
                   IF f <= HeaderLen THEN lead ELSE rest[i][f - HeaderLen]]]]

\* The little-endian bytes DataView.setUint16 / setUint32 store
LittleEndian(data, size) == [i \in 1..size |-> (data \div (256 ^ (i - 1))) % 256]

RECURSIVE Put(_, _, _)
\* view.setUintNN(pos, data, true) / view.setInt16(pos, data, true) on the bytes of
\* the view: the bytes of data go to pos, pos + 1, ..
Put(view, pos, bytes) ==
  IF bytes = <<>> THEN view
  ELSE Put([view EXCEPT ![pos + 1] = Head(bytes)], pos + 1, Tail(bytes))

\* function setUint16(data) { view.setUint16(pos, data, true); pos += 2; }
setUint16(w, data) == [view |-> Put(w.view, w.pos, LittleEndian(data, 2)), pos |-> w.pos + 2]

\* function setUint32(data) { view.setUint32(pos, data, true); pos += 4; }
setUint32(w, data) == [view |-> Put(w.view, w.pos, LittleEndian(data, 4)), pos |-> w.pos + 4]

\* x | 0 for a quotient a / b below 2^31: the fraction is dropped, towards zero
Trunc(a, b) == IF a >= 0 THEN a \div b ELSE -((-a) \div b)

\* sample = Math.max(-1, Math.min(1, channels[i][pos]))
ClampUnclamped(sample) == sample

Clamp(sample) == Max(-SampleUnit, Min(SampleUnit, sample))

\* sample = (0.5 + sample < 0 ? sample * 32768 : sample * 32767) | 0
Scaled(sample) ==
  IF SampleUnit + 2 * sample < 0
  THEN Trunc(sample * NegScale, SampleUnit)
  ELSE Trunc(sample * PosScale, SampleUnit)

\* view.setInt16(.., sample, true): the low 16 bits of the integer, little-endian
Int16Bytes(value) == LittleEndian(value % 65536, 2)

RECURSIVE WriteChannels(_, _, _, _, _)
\* for (i = 0; i < numOfChan; i++) { ...; view.setInt16(44 + offset, sample, true); offset += 2 }
WriteChannels(view, buf, pos, offset, i) ==
  IF i >= buf.numberOfChannels THEN view
  ELSE WriteChannels(
         Put(view, HeaderLen + offset, Int16Bytes(Scaled(Clamp(buf.channels[i + 1][pos + 1])))),
         buf, pos, offset + 2, i + 1)

RECURSIVE WriteFrames(_, _, _, _)
\* while (pos < abuffer.length) { for ...; pos++ }
WriteFrames(view, buf, pos, offset) ==
  IF pos >= buf.length THEN view
  ELSE WriteFrames(WriteChannels(view, buf, pos, offset, 0), buf, pos + 1,
                   offset + 2 * buf.numberOfChannels)

\* bufferToWav(abuffer): the bytes of the Blob
BufferToWav(buf) ==
  LET numOfChan == buf.numberOfChannels
      length == buf.length * numOfChan * 2 + 44
      w0  == [view |-> [i \in 1..length |-> 0], pos |-> 0]
      w1  == setUint32(w0, 1179011410)
      w2  == setUint32(w1, length - 8)
      w3  == setUint32(w2, 1163280727)
      w4  == setUint32(w3, 544501094)
      w5  == setUint32(w4, 16)
      w6  == setUint16(w5, 1)
      w7  == setUint16(w6, numOfChan)
      w8  == setUint32(w7, buf.sampleRate)
      w9  == setUint32(w8, buf.sampleRate * 2 * numOfChan)
      w10 == setUint16(w9, numOfChan * 2)
      w11 == setUint16(w10, 16)
      w12 == setUint32(w11, 1635017060)
      w13 == setUint32(w12, length - w12.pos - 4)
  IN WriteFrames(w13.view, buf, w13.pos, 0)

\* const wavBlob = audioEngine.bufferToWav(buffer), for the buffer the App holds
EncodeBuffer ==
  /\ wav = <<>>
  /\ wav' = BufferToWav(abuffer)
  /\ UNCHANGED <<engine, clips, tracks, context, clock, activeSources, ended, retired,
                 trackChains, bufferMap, startTime, pausedAt, isPlaying, playCount,
                 lastPlay, rendered, last, firstRender, abuffer>>
  /\ UNCHANGED sideVars

WavInit ==
  /\ Boot({<<>>}, {1}, LogOff)
  /\ engine = "utils"
  /\ \E c \in {1, 2}, n \in Lengths, r \in {SampleRate, 48000}, lead \in LeadSamples :
       \E rest \in [1..c -> [1..Max(0, n - HeaderLen) -> Samples]] :
         abuffer = AudioBuffer(c, n, r, lead, rest)

WavNext == EncodeBuffer

WavSpec == WavInit /\ [][WavNext]_vars

\* ---------------------------------------------------------------- C17
\* The unsigned number held little-endian in size bytes of the file from byte at
Field(at, size) ==
  IF size = 2 THEN wav[at + 1] + 256 * wav[at + 2]
  ELSE wav[at + 1] + 256 * wav[at + 2] + 65536 * (wav[at + 3] + 256 * wav[at + 4])

\* The signed 16-bit sample stored for frame f, channel c when frames are
\* interleaved from byte 44
StoredAt(f, c) ==
  LET u == Field(HeaderLen + 2 * (f * abuffer.numberOfChannels + c), 2)
  IN IF u >= 32768 THEN u - 65536 ELSE u

\* value / 32768 is within 2 / 32768 of the sample clamped to [-1, 1]
Reproduces(value, sample) ==
  LET diff == value * SampleUnit - Max(-SampleUnit, Min(SampleUnit, sample)) * 32768
  IN diff < 2 * SampleUnit /\ -diff < 2 * SampleUnit

WavHeaderMatches ==
  /\ Len(wav) = 44 + 2 * abuffer.numberOfChannels * abuffer.length
  /\ SubSeq(wav, 1, 4) = <<82, 73, 70, 70>>
  /\ Field(4, 4) = Len(wav) - 8
  /\ SubSeq(wav, 9, 16) = <<87, 65, 86, 69, 102, 109, 116, 32>>
  /\ Field(16, 4) = 16
  /\ Field(20, 2) = 1
  /\ Field(22, 2) = abuffer.numberOfChannels
  /\ Field(24, 4) = abuffer.sampleRate
  /\ Field(28, 4) = 2 * abuffer.numberOfChannels * abuffer.sampleRate
  /\ Field(32, 2) = 2 * abuffer.numberOfChannels
  /\ Field(34, 2) = 16
  /\ SubSeq(wav, 37, 40) = <<100, 97, 116, 97>>
  /\ Field(40, 4) = 2 * abuffer.numberOfChannels * abuffer.length

\* C17: the file bufferToWav makes of a buffer of C channels, rate R and N frames has
\* 44 + 2*C*N bytes, the header fields of the claim, a data-chunk length of 2*C*N, and
\* holds the sample of frame f, channel c in the two bytes at 44 + 2*(f*C + c).
C17_WavLayout ==
  wav # <<>> =>
    /\ WavHeaderMatches
    /\ \A f \in 0..(abuffer.length - 1) : \A c \in 0..(abuffer.numberOfChannels - 1) :
         Reproduces(StoredAt(f, c), abuffer.channels[c + 1][f + 1])

\* ---------------------------------------------------------------- C18
\* The signed 16-bit values of the payload, in file order
StoredValues ==
  [k \in 1..((Len(wav) - HeaderLen) \div 2) |->
     LET u == Field(HeaderLen + 2 * (k - 1), 2)
     IN IF u >= 32768 THEN u - 65536 ELSE u]

\* The input value the k-th stored value was converted from: the encoder reads frame
\* by frame from the frame its loop starts at, channel by channel
InputOf(k) ==
  LET f == HeaderLen + ((k - 1) \div abuffer.numberOfChannels)
      c == (k - 1) % abuffer.numberOfChannels
  IN abuffer.channels[c + 1][f + 1]

\* The number of samples the encoder converts and stores
Converted == Max(0, abuffer.length - HeaderLen) * abuffer.numberOfChannels

InDocumentedRange(chain) ==
  /\ chain.eqLow >= -20 /\ chain.eqLow <= 20
  /\ chain.eqMid >= -20 /\ chain.eqMid <= 20
  /\ chain.eqHigh >= -20 /\ chain.eqHigh <= 20
  /\ chain.delayTime > 0 /\ chain.delayTime <= 200
  /\ chain.delayFeedback >= 0 /\ chain.delayFeedback <= 90
  /\ chain.delayWet >= 0 /\ chain.delayWet <= 100

\* C19: every value written into a live chain or into a chain of the offline render
\* lies in its documented range, whatever the Track record holds; in particular every
\* feedback gain is below 1.
C19_ChainValuesInRange ==
  /\ \A id \in DOMAIN trackChains :
       InDocumentedRange(trackChains[id]) /\ trackChains[id].delayFeedback < 100
  /\ rendered.done =>
       \A id \in DOMAIN rendered.chains :
         InDocumentedRange(rendered.chains[id]) /\ rendered.chains[id].delayFeedback < 100

\* ---------------------------------------------------------------- C20
\* The chain of id is still in the map after the step, made of the same nodes with
\* the same wiring
Persists(id) ==
  /\ id \in DOMAIN trackChains'
  /\ trackChains'[id].nodes = trackChains[id].nodes
  /\ trackChains'[id].wiring = trackChains[id].wiring

\* The chain of id was created by the step, for a track the step refers to, of nodes
\* no other chain is made of
CreatedOnReference(id) ==
  /\ \E i \in 1..Len(tracks') : tracks'[i].id = id
  /\ \A other \in DOMAIN trackChains' \ {id} :
       trackChains'[other].nodes # trackChains'[id].nodes

\* C20: no call ever removes a chain from the map or replaces the nodes or the wiring
\* of a chain that exists; a chain that appears is created for a track the call refers
\* to, of nodes of its own, so there is one chain per track id and only parameter
\* values change.
C20_ChainsPersist ==
  [][/\ \A id \in DOMAIN trackChains : Persists(id)
     /\ \A id \in DOMAIN trackChains' \ DOMAIN trackChains : CreatedOnReference(id)]_vars

\* C20 witness: after two plays and a stop both tracks still have the chains first
\* created for them, one of them with the volume of a muted track written to it
C20_Witness ==
  /\ playCount = MaxPlays
  /\ last.op = "stop"
  /\ DOMAIN trackChains = {"t1", "t2"}
  /\ trackChains["t1"].nodes # trackChains["t2"].nodes
  /\ \E id \in DOMAIN trackChains : trackChains[id].volume = 0

\* ============================================================== recording
\* Clicks on a record button the model follows
MaxRecCalls == 4

\* new MediaRecorder(stream); mediaRecorder.start(): onstop is the promise whose
\* handler is installed (0: none), stopEvent a 'stop' event not yet dispatched,
\* streamLive the microphone tracks of its stream not yet stopped
NewRecorder(handler) ==
  [state |-> "recording", onstop |-> handler, stopEvent |-> FALSE, streamLive |-> TRUE]

\* new Promise(..) of stopRecording / recordAudio: session is the recorder the call
\* was made on, handler the progress of the onstop handler installed by the call
NewPromise(session) ==
  [session |-> session, state |-> "pending", value |-> "none", handler |-> "idle"]

\* handleRecord, isRecording false: await audioEngine.startRecording(), which awaits
\* navigator.mediaDevices.getUserMedia
HandleRecordStart ==
  /\ engine = "utils"
  /\ ~isRecording
  /\ recCalls < MaxRecCalls
  /\ starts' = starts + 1
  /\ recCalls' = recCalls + 1
  /\ recLast' = RecOp("start")
  /\ UNCHANGED <<mediaRecorder, recorders, promises, isRecording, recorded>>
  /\ UNCHANGED <<mixVars, appVars>>

\* getUserMedia resolves: startRecording registers and starts a new recorder, returns,
\* and handleRecord sets isRecording
GetUserMediaGranted ==
  /\ engine = "utils"
  /\ starts > 0
  /\ starts' = starts - 1
  /\ recorders' = Append(recorders, NewRecorder(0))
  /\ mediaRecorder' = Len(recorders) + 1
  /\ isRecording' = TRUE
  /\ recLast' = [RecOp("started") EXCEPT !.recorder = Len(recorders) + 1]
  /\ UNCHANGED <<promises, recorded, recCalls>>
  /\ UNCHANGED <<mixVars, appVars>>

\* getUserMedia rejects (no device, access denied): startRecording throws at its first
\* line and handleRecord alerts
GetUserMediaDenied ==
  /\ engine = "utils"
  /\ starts > 0
  /\ starts' = starts - 1
  /\ recLast' = [RecOp("startFailed") EXCEPT !.alert = TRUE]
  /\ UNCHANGED <<mediaRecorder, recorders, promises, isRecording, recorded, recCalls>>
  /\ UNCHANGED <<mixVars, appVars>>

\* stopRecording(): if (!this.mediaRecorder) { resolve(null); return; }
StopRecordingReturns(recorder) == IF recorder = 0 THEN "null" ELSE "pending"

\* handleRecord, isRecording true: await audioEngine.stopRecording().  With no recorder
\* registered the promise resolves with null and handleRecord clears the flag.
\* Otherwise the call installs its onstop handler on the registered recorder and calls
\* mediaRecorder.stop(), which on a recorder that is already inactive does nothing or
\* throws InvalidStateError, depending on the browser.
HandleRecordStop(throwsIfInactive) ==
  /\ engine = "utils"
  /\ isRecording
  /\ recCalls < MaxRecCalls
  /\ recCalls' = recCalls + 1
  /\ IF StopRecordingReturns(mediaRecorder) = "null"
     THEN /\ promises' = Append(promises, [NewPromise(0) EXCEPT !.state = "resolved",
                                                                !.value = "null"])
          /\ isRecording' = FALSE
          /\ recLast' = [RecOp("stopNull") EXCEPT !.promise = Len(promises) + 1]
          /\ UNCHANGED recorders
     ELSE LET r == mediaRecorder
              p == Len(promises) + 1
              active == recorders[r].state = "recording"
          IN /\ recorders' =
                  [recorders EXCEPT ![r].onstop = p,
                                    ![r].state = "inactive",
                                    ![r].stopEvent = @ \/ active]
             /\ promises' =
                  Append(promises,
                         IF ~active /\ throwsIfInactive
                         THEN [NewPromise(r) EXCEPT !.state = "rejected"]
                         ELSE NewPromise(r))
             /\ recLast' = [RecOp("stop") EXCEPT !.recorder = r, !.promise = p]
             /\ UNCHANGED isRecording
  /\ UNCHANGED <<mediaRecorder, starts, recorded>>
  /\ UNCHANGED <<mixVars, appVars>>

\* The 'stop' event of a recorder is dispatched: the onstop handler installed last
\* starts and awaits blob.arrayBuffer() and the decode
StopEvent(r) ==
  /\ recorders[r].stopEvent
  /\ recorders' = [recorders EXCEPT ![r].stopEvent = FALSE]
  /\ promises' = IF recorders[r].onstop = 0 THEN promises
                 ELSE [promises EXCEPT ![recorders[r].onstop].handler = "decoding"]
  /\ recLast' = [RecOp("onstop") EXCEPT !.recorder = r, !.promise = recorders[r].onstop]
  /\ UNCHANGED <<mediaRecorder, starts, isRecording, recorded, recCalls>>
  /\ UNCHANGED <<mixVars, appVars>>

\* this.mediaRecorder?.stream.getTracks().forEach(track => track.stop());
\* this.mediaRecorder = null;
TornDown(registered, session) == registered

\* The decode awaited by an onstop handler of the utils engine settles: the handler
\* resolves the promise with the buffer or with null, stops the stream of the
\* registered recorder and unregisters it; handleRecord, if it still waits for this
\* promise, clears isRecording and adds a clip for a buffer
DecodeSettles(p, decoded) ==
  /\ engine = "utils"
  /\ promises[p].handler = "decoding"
  /\ LET waiting == promises[p].state = "pending"
         torn == TornDown(mediaRecorder, promises[p].session)
     IN /\ promises' =
             [promises EXCEPT ![p].handler = "done",
                              ![p].state = IF waiting THEN "resolved" ELSE @,
                              ![p].value = IF waiting
                                           THEN (IF decoded THEN "buffer" ELSE "null")
                                           ELSE @]
        /\ recorders' = IF torn = 0 THEN recorders
                        ELSE [recorders EXCEPT ![torn].streamLive = FALSE]
        /\ mediaRecorder' = IF torn = mediaRecorder THEN 0 ELSE mediaRecorder
        /\ isRecording' = IF waiting THEN FALSE ELSE isRecording
        /\ recorded' = IF waiting /\ decoded THEN recorded + 1 ELSE recorded
        /\ recLast' = [RecOp("teardown") EXCEPT !.promise = p,
                                                 !.recorder = promises[p].session,
                                                 !.torn = torn]
  /\ UNCHANGED <<starts, recCalls>>
  /\ UNCHANGED <<mixVars, appVars>>

\* startRecording of src/App.tsx: setIsRecording(true), then await
\* audioEngine.recordAudio(trackId), which awaits getUserMedia
SvcStartRecording ==
  /\ engine = "services"
  /\ recCalls < MaxRecCalls
  /\ recCalls' = recCalls + 1
  /\ isRecording' = TRUE
  /\ starts' = starts + 1
  /\ recLast' = RecOp("start")
  /\ UNCHANGED <<mediaRecorder, recorders, promises, recorded>>
  /\ UNCHANGED <<mixVars, appVars>>

\* getUserMedia resolves in recordAudio: a recorder local to the call is made, the
\* promise with its onstop handler is returned, the recorder is started
SvcGetUserMediaGranted ==
  /\ engine = "services"
  /\ starts > 0
  /\ starts' = starts - 1
  /\ recorders' = Append(recorders, NewRecorder(Len(promises) + 1))
  /\ promises' = Append(promises, NewPromise(Len(recorders) + 1))
  /\ recLast' = [RecOp("started") EXCEPT !.recorder = Len(recorders) + 1,
                                          !.promise = Len(promises) + 1]
  /\ UNCHANGED <<mediaRecorder, isRecording, recorded, recCalls>>
  /\ UNCHANGED <<mixVars, appVars>>

\* getUserMedia rejects in recordAudio: startRecording catches, alerts, and clears
\* isRecording in its finally block
SvcGetUserMediaDenied ==
  /\ engine = "services"
  /\ starts > 0
  /\ starts' = starts - 1
  /\ isRecording' = FALSE
  /\ recLast' = [RecOp("startFailed") EXCEPT !.alert = TRUE]
  /\ UNCHANGED <<mediaRecorder, recorders, promises, recorded, recCalls>>
  /\ UNCHANGED <<mixVars, appVars>>

\* The microphone stream of a recording recorder ends by itself (the device is
\* removed, the permission is revoked): the recorder stops and queues its events
StreamEnds(r) ==
  /\ recorders[r].state = "recording"
  /\ recorders' = [recorders EXCEPT ![r].state = "inactive", ![r].stopEvent = TRUE,
                                    ![r].streamLive = FALSE]
  /\ recLast' = [RecOp("streamEnds") EXCEPT !.recorder = r]
  /\ UNCHANGED <<mediaRecorder, starts, promises, isRecording, recorded, recCalls>>
  /\ UNCHANGED <<mixVars, appVars>>

\* The decode awaited by the onstop handler of recordAudio settles.  Decoded: the
\* stream is stopped, the promise resolves, and startRecording adds the buffer and the
\* clip and clears isRecording.  Not decoded: the handler ends with the rejection, and
\* neither resolve nor reject is ever called.
SvcDecodeSettles(p, decoded) ==
  /\ engine = "services"
  /\ promises[p].handler = "decoding"
  /\ promises' = [promises EXCEPT ![p].handler = "done",
                                  ![p].state = IF decoded THEN "resolved" ELSE @,
                                  ![p].value = IF decoded THEN "buffer" ELSE @]
  /\ recorders' = IF decoded
                  THEN [recorders EXCEPT ![promises[p].session].streamLive = FALSE]
                  ELSE recorders
  /\ isRecording' = IF decoded THEN FALSE ELSE isRecording
  /\ recorded' = IF decoded THEN recorded + 1 ELSE recorded
  /\ recLast' = [RecOp("settled") EXCEPT !.promise = p, !.recorder = promises[p].session]
  /\ UNCHANGED <<mediaRecorder, starts, recCalls>>
  /\ UNCHANGED <<mixVars, appVars>>

RecInit == Boot({<<>>}, {1}, LogOff) /\ abuffer = NoBuffer

\* What the browser does by itself once it can
GetUserMediaSettles ==
  GetUserMediaGranted \/ GetUserMediaDenied \/ SvcGetUserMediaGranted \/ SvcGetUserMediaDenied

StopEventDispatched == \E r \in 1..Len(recorders) : StopEvent(r)

DecodeDone ==
  \E p \in 1..Len(promises), decoded \in BOOLEAN :
    DecodeSettles(p, decoded) \/ SvcDecodeSettles(p, decoded)

RecNext ==
  \/ HandleRecordStart
  \/ GetUserMediaGranted
  \/ GetUserMediaDenied
  \/ \E throwsIfInactive \in BOOLEAN : HandleRecordStop(throwsIfInactive)
  \/ \E r \in 1..Len(recorders) : StopEvent(r)
  \/ \E p \in 1..Len(promises), decoded \in BOOLEAN : DecodeSettles(p, decoded)
  \/ SvcStartRecording
  \/ SvcGetUserMediaGranted
  \/ SvcGetUserMediaDenied
  \/ \E r \in 1..Len(recorders) : StreamEnds(r)
  \/ \E p \in 1..Len(promises), decoded \in BOOLEAN : SvcDecodeSettles(p, decoded)

RecSpec == RecInit /\ [][RecNext]_vars

\* The same program with what the browser guarantees: a getUserMedia request is
\* answered, a queued event is dispatched, a decode settles
RecFairSpec ==
  /\ RecInit
  /\ [][RecNext]_vars
  /\ WF_vars(GetUserMediaSettles)
  /\ WF_vars(StopEventDispatched)
  /\ WF_vars(DecodeDone)

\* ---------------------------------------------------------------- C21
\* A step in which a getUserMedia request was refused
StartFails == recLast'.op = "startFailed"

\* C21: when the input device is unavailable or access is denied, the failure is
\* shown to the user (the alert of the catch block), and afterwards no recorder is
\* registered in the engine, the UI recording flag is false, no clip, recorder or
\* promise was added, and stopRecording would return null.
C21_FailedStartLeavesNothing ==
  [][StartFails =>
       /\ recLast'.alert
       /\ mediaRecorder' = 0
       /\ ~isRecording'
       /\ recorded' = recorded
       /\ recorders' = recorders
       /\ promises' = promises
       /\ StopRecordingReturns(mediaRecorder') = "null"]_vars

\* ---------------------------------------------------------------- C22
\* The clip's track is in the tracks of the call and has its mute switch set
OnMutedTrack(clip) == HasTrack(clip) /\ TrackOf(clip).muted

\* C22: in the services engine a clip on a muted track gets no voice from
\* schedulePlayback and no source from exportProject.
C22_MutedTracksAreNotScheduled ==
  engine = "services" =>
    /\ last.op = "play" =>
         \A clip \in ClipSet : OnMutedTrack(clip) => VoicesOf(clip) = {}
    /\ rendered.done =>
         \A clip \in ClipSet : OnMutedTrack(clip) => SourcesOf(clip) = {}

\* ---------------------------------------------------------------- C23
\* C23: across a stop() of the utils engine the value of getCurrentTime() does not
\* change: right after the call it returns what it returned right before it.
C23_StopKeepsThePosition ==
  [][(engine = "utils" /\ last'.op = "stop") => GetCurrentTime' = GetCurrentTime]_vars

\* ---------------------------------------------------------------- C24
\* The promise of the p-th recordAudio call has been made and is not settled
SvcRecordingPending(p) ==
  engine = "services" /\ p <= Len(promises) /\ promises[p].state = "pending"

SvcRecordingSettled(p) ==
  p <= Len(promises) /\ promises[p].state \in {"resolved", "rejected"}

\* C24: in the services engine the promise of every recordAudio call eventually
\* settles, and an isRecording flag that startRecording set eventually is false again.
C24_RecordingCompletes ==
  /\ \A p \in 1..MaxRecCalls : SvcRecordingPending(p) ~> SvcRecordingSettled(p)
  /\ (engine = "services" /\ isRecording) ~> ~isRecording

\* ================================================= project files (src/App.tsx)
OtherBuffer == [id |-> "b2", duration |-> BufDur]

\* An entry of project.assets: the bytes decode to the buffer, or do not decode
Asset(buffer, decodes) == [id |-> buffer.id, buffer |-> buffer, decodes |-> decodes]

\* Object.entries(project.assets) of the files opened
AssetLists ==
  {<<>>, <<Asset(TheBuffer, TRUE)>>, <<Asset(TheBuffer, FALSE)>>,
   <<Asset(OtherBuffer, TRUE), Asset(TheBuffer, FALSE)>>}

\* The files opened: text that is not JSON, a project of another version, and projects
\* of version 1 saved by this session whose second track was taken out by hand
LoadFiles(cls, trks) ==
  {[kind |-> "malformed"], [kind |-> "version"]} \cup
  {[kind |-> "project", tracks |-> SelectSeq(trks, LAMBDA t : t.id # "t2"),
    clips |-> cls, assets |-> assets] : assets \in AssetLists}

RECURSIVE LoadAssets(_, _, _)
\* for (const [id, base64] of Object.entries(project.assets)) {
\*   const audioBuf = await audioEngine.ctx.decodeAudioData(ab);
\*   audioEngine.addBuffer(id, audioBuf); }
\* up to the first asset whose decode rejects
LoadAssets(buffers, assets, i) ==
  IF i > Len(assets) THEN [buffers |-> buffers, failed |-> FALSE]
  ELSE IF ~assets[i].decodes THEN [buffers |-> buffers, failed |-> TRUE]
  ELSE LoadAssets([id \in (DOMAIN buffers) \cup {assets[i].id} |->
                     IF id = assets[i].id THEN assets[i].buffer ELSE buffers[id]],
                  assets, i + 1)

\* reader.onload of handleLoadProject, for any file
HandleLoadFile(file, throws) ==
  /\ engine = "services"
  /\ IF file.kind = "malformed"
     THEN /\ uiLast' = [UiOp("loadFailed") EXCEPT !.alert = TRUE]
          /\ UNCHANGED <<bufferMap, tracks, clips, history, future, activeSources,
                         ended, trackChains, last>>
     ELSE IF file.kind = "version"
     THEN /\ uiLast' = [UiOp("loadRefused") EXCEPT !.alert = TRUE]
          /\ UNCHANGED <<bufferMap, tracks, clips, history, future, activeSources,
                         ended, trackChains, last>>
     ELSE LET loaded == LoadAssets(bufferMap, file.assets, 1)
              s == StopAllOutcome(throws)
          IN /\ bufferMap' = loaded.buffers
             /\ IF loaded.failed
                THEN /\ uiLast' = [UiOp("loadFailed") EXCEPT !.alert = TRUE]
                     /\ last' = IF bufferMap' = bufferMap THEN last ELSE Op("addBuffer")
                     /\ UNCHANGED <<tracks, clips, history, future, activeSources,
                                    ended, trackChains>>
                ELSE /\ tracks' = file.tracks
                     /\ clips' = file.clips
                     /\ history' = <<>>
                     /\ future' = <<>>
                     /\ activeSources' = s.activeSources
                     /\ ended' = s.ended
                     /\ trackChains' = SetupTracks(trackChains, file.tracks, 1)
                     /\ last' = [Op("load") EXCEPT !.stopped = s.stopped,
                                                   !.caught = s.caught]
                     /\ uiLast' = UiOp("loaded")
  /\ UNCHANGED <<engine, context, clock, retired, startTime, pausedAt, isPlaying,
                 playCount, lastPlay, rendered, firstRender, abuffer, wav>>
  /\ UNCHANGED <<currentTime, selectedClipId, draggingClipId, uiIsPlaying>>
  /\ UNCHANGED recVars

\* onClipSelect={setSelectedClipId}
SelectClip(id) ==
  /\ engine = "services"
  /\ \E i \in 1..Len(clips) : clips[i].id = id
  /\ selectedClipId' = id
  /\ uiLast' = UiOp("select")
  /\ UNCHANGED <<history, future, currentTime, draggingClipId, uiIsPlaying>>
  /\ UNCHANGED <<mixVars, recVars>>

\* pushHistory()
PushHistory == Append(history, [tracks |-> tracks, clips |-> clips])

\* deleteClip of src/App.tsx
DeleteClip ==
  /\ engine = "services"
  /\ selectedClipId # 0
  /\ history' = PushHistory
  /\ future' = <<>>
  /\ clips' = SelectSeq(clips, LAMBDA c : c.id # selectedClipId)
  /\ selectedClipId' = 0
  /\ uiLast' = UiOp("delete")
  /\ UNCHANGED <<currentTime, draggingClipId, uiIsPlaying>>
  /\ UNCHANGED <<engine, tracks, context, clock, activeSources, ended, retired,
                 trackChains, bufferMap, startTime, pausedAt, isPlaying, playCount,
                 lastPlay, rendered, last, firstRender, abuffer, wav>>
  /\ UNCHANGED recVars

RECURSIVE SvcUpdateAll(_, _, _)
\* previous.tracks.forEach(t => audioEngine.updateTrackParams(t))
SvcUpdateAll(chains, trks, i) ==
  IF i > Len(trks) THEN chains
  ELSE SvcUpdateAll(SvcUpdateTrackParams(chains, trks[i]), trks, i + 1)

\* handleUndo of src/App.tsx
HandleUndo ==
  /\ engine = "services"
  /\ history # <<>>
  /\ LET previous == history[Len(history)]
     IN /\ future' = <<[tracks |-> tracks, clips |-> clips]>> \o future
        /\ tracks' = previous.tracks
        /\ clips' = previous.clips
        /\ history' = SubSeq(history, 1, Len(history) - 1)
        /\ trackChains' = SvcUpdateAll(trackChains, previous.tracks, 1)
  /\ uiLast' = UiOp("undo")
  /\ UNCHANGED <<currentTime, selectedClipId, draggingClipId, uiIsPlaying>>
  /\ UNCHANGED <<engine, context, clock, activeSources, ended, retired, bufferMap,
                 startTime, pausedAt, isPlaying, playCount, lastPlay, rendered, last,
                 firstRender, abuffer, wav>>
  /\ UNCHANGED recVars

LoadInit == Boot(RenderClipLists, {1}, LogOff) /\ abuffer = NoBuffer /\ engine = "services"

LoadNext ==
  \/ \E file \in LoadFiles(clips, tracks), throws \in BOOLEAN : HandleLoadFile(file, throws)
  \/ \E id \in {1, 2} : SelectClip(id)
  \/ DeleteClip
  \/ HandleUndo

LoadSpec == LoadInit /\ [][LoadNext]_vars

\* ---------------------------------------------------------------- C25
\* A step that ended with the failure alert of handleLoadProject, or with its
\* alert for an unknown version
LoadFails == uiLast'.op = "loadFailed"
LoadRefused == uiLast'.op = "loadRefused"

\* C25: a load that fails, or that is refused for its version tag, leaves the sample
\* store, the track list, the clip list and the undo and redo stacks as they were.
C25_FailedLoadChangesNothing ==
  [][(LoadFails \/ LoadRefused) =>
       /\ bufferMap' = bufferMap
       /\ tracks' = tracks
       /\ clips' = clips
       /\ history' = history
       /\ future' = future]_vars

\* ------------------------------------------------------- the transport UI
\* The Apps' transport and edit handlers.  src/unnamed/part_001 drives the utils
\* engine, src/App.tsx the services engine.
MaxClips == 3

\* The positions a click on the time ruler can give
ClickTimes == 1..(2 * MaxT)

\* The position a dragged clip is moved to
DropTimes == {2 * MaxT}

\* Positions at which the buffer time elapsed on every track is a whole number of
\* steps, so that the products by the playback rate are computed exactly
AtWholeSteps(trks, p) ==
  \A i \in 1..Len(trks) : (p * PlaybackRate(trks[i])) % 2 = 0

\* Math.random().toString(36) / generateId(): an id no clip has
NewClipId(cls) ==
  CHOOSE id \in 1..(Len(cls) + 1) :
    /\ ~\E i \in 1..Len(cls) : cls[i].id = id
    /\ \A k \in 1..(id - 1) : \E i \in 1..Len(cls) : cls[i].id = k

\* currentTime > visualStart && currentTime < visualEnd, with
\* visualEnd = clip.startTime + clip.duration / playbackRate
InsideClipOrAtStart(clip, rate, p) ==
  p >= clip.startTime /\ p * rate < clip.startTime * rate + 2 * clip.duration

InsideClip(clip, rate, p) ==
  p > clip.startTime /\ p * rate < clip.startTime * rate + 2 * clip.duration

\* clipLeft and clipRight of handleSplitClip, updatedFirstHalf and secondHalf of
\* splitClip
SplitLeft(clip, rate, p) ==
  [clip EXCEPT !.duration = MulRate(p - clip.startTime, rate)]

SplitRight(clip, rate, p, id) ==
  LET leftDuration == MulRate(p - clip.startTime, rate)
  IN [clip EXCEPT !.id = id, !.startTime = p,
                  !.offset = clip.offset + leftDuration,
                  !.duration = clip.duration - leftDuration]

\* clips.map(c => c.id === clip.id ? left : c).concat(right)
SplitClips(cls, clip, rate, p) ==
  Append([i \in 1..Len(cls) |->
            IF cls[i].id = clip.id THEN SplitLeft(clip, rate, p) ELSE cls[i]],
         SplitRight(clip, rate, p, NewClipId(cls)))

\* clips.find(c => c.id === selectedClipId)
FindClip(cls, id) ==
  cls[CHOOSE i \in 1..Len(cls) :
        /\ cls[i].id = id
        /\ \A j \in 1..(i - 1) : cls[j].id # id]

HasClip(cls, id) == \E i \in 1..Len(cls) : cls[i].id = id

\* audioEngine.stop() called by a handler
EngineStop(throws) ==
  LET s == StopOutcome(throws)
  IN /\ activeSources' = s.activeSources
     /\ ended' = s.ended
     /\ isPlaying' = s.isPlaying
     /\ last' = [Op("stop") EXCEPT !.thrown = ~s.completed,
                                   !.stopped = s.stopped, !.caught = s.caught]
     /\ UNCHANGED <<context, trackChains, startTime, pausedAt, playCount, lastPlay>>

\* audioEngine.stop(); audioEngine.play(cls, tracks, at);
RestartFromZero(cls, at, throws) == PlayFrom(StopOutcome(throws), cls, tracks, 0)

Restart(cls, at, throws) == PlayFrom(StopOutcome(throws), cls, tracks, at)

\* What no handler of the transport UI touches
UiFrame ==
  /\ UNCHANGED <<engine, tracks, clock, retired, bufferMap, firstRender, abuffer, wav>>
  /\ UNCHANGED <<history, future>>
  /\ UNCHANGED recVars

EngineIdle ==
  UNCHANGED <<context, activeSources, ended, trackChains, startTime, pausedAt,
              isPlaying, playCount, lastPlay, rendered, last>>

\* handlePlayPause
HandlePlayPause(throws) ==
  /\ engine = "utils"
  /\ IF uiIsPlaying
     THEN /\ EngineStop(throws)
          /\ uiIsPlaying' = FALSE
     ELSE /\ playCount < MaxPlays
          /\ PlayFrom(StopIfPlaying(throws), clips, tracks, currentTime)
          /\ uiIsPlaying' = TRUE
  /\ rendered' = NoRender
  /\ uiLast' = [UiOp("playPause") EXCEPT !.at = currentTime]
  /\ UNCHANGED <<clips, currentTime, selectedClipId, draggingClipId>>
  /\ UiFrame

\* handleStop
HandleStop(throws) ==
  /\ engine = "utils"
  /\ EngineStop(throws)
  /\ rendered' = NoRender
  /\ uiIsPlaying' = FALSE
  /\ currentTime' = 0
  /\ uiLast' = UiOp("stop")
  /\ UNCHANGED <<clips, selectedClipId, draggingClipId>>
  /\ UiFrame

\* handleTimelineClick; the click then reaches the onClick of the enclosing
\* container, which clears the selection
HandleTimelineClick(time, throws) ==
  /\ engine = "utils"
  /\ draggingClipId = 0
  /\ AtWholeSteps(tracks, time)
  /\ IF uiIsPlaying
     THEN /\ playCount < MaxPlays
          /\ Restart(clips, time, throws)
          /\ rendered' = NoRender
     ELSE EngineIdle
  /\ currentTime' = time
  /\ selectedClipId' = 0
  /\ uiLast' = [UiOp("click") EXCEPT !.at = time]
  /\ UNCHANGED <<clips, draggingClipId, uiIsPlaying>>
  /\ UiFrame

\* handleSplitClip
HandleSplitClip(throws) ==
  /\ engine = "utils"
  /\ selectedClipId # 0
  /\ HasClip(clips, selectedClipId)
  /\ Len(clips) < MaxClips
  /\ LET clip == FindClip(clips, selectedClipId)
         playbackRate == PlaybackRate(FindTrack(tracks, clip.trackId))
         newClips == SplitClips(clips, clip, playbackRate, currentTime)
         now == GetCurrentTime
     IN /\ InsideClip(clip, playbackRate, currentTime)
        /\ clips' = newClips
        /\ selectedClipId' = NewClipId(clips)
        /\ IF uiIsPlaying
           THEN /\ playCount < MaxPlays
                /\ Restart(newClips, now, throws)
                /\ rendered' = NoRender
                /\ uiLast' = [UiOp("split") EXCEPT !.at = now]
           ELSE /\ EngineIdle
                /\ uiLast' = UiOp("split")
  /\ UNCHANGED <<currentTime, draggingClipId, uiIsPlaying>>
  /\ UiFrame

\* handleDeleteClip
HandleDeleteClip(throws) ==
  /\ engine = "utils"
  /\ selectedClipId # 0
  /\ LET newClips == SelectSeq(clips, LAMBDA c : c.id # selectedClipId)
         now == GetCurrentTime
     IN /\ clips' = newClips
        /\ selectedClipId' = 0
        /\ IF uiIsPlaying
           THEN /\ playCount < MaxPlays
                /\ Restart(newClips, now, throws)
                /\ rendered' = NoRender
                /\ uiLast' = [UiOp("delete") EXCEPT !.at = now]
           ELSE /\ EngineIdle
                /\ uiLast' = UiOp("delete")
  /\ UNCHANGED <<currentTime, draggingClipId, uiIsPlaying>>
  /\ UiFrame

\* handleClipMouseDown
HandleClipMouseDown(clipId) ==
  /\ engine = "utils"
  /\ HasClip(clips, clipId)
  /\ draggingClipId' = clipId
  /\ selectedClipId' = clipId
  /\ uiLast' = UiOp("grab")
  /\ EngineIdle
  /\ UNCHANGED <<clips, currentTime, uiIsPlaying>>
  /\ UiFrame

\* handleMouseMove
HandleMouseMove(newStartTime, targetTrackId) ==
  /\ engine = "utils"
  /\ draggingClipId # 0
  /\ clips' = [i \in 1..Len(clips) |->
                 IF clips[i].id = draggingClipId
                 THEN [clips[i] EXCEPT !.startTime = newStartTime,
                                       !.trackId = targetTrackId]
                 ELSE clips[i]]
  /\ uiLast' = UiOp("drag")
  /\ EngineIdle
  /\ UNCHANGED <<currentTime, selectedClipId, draggingClipId, uiIsPlaying>>
  /\ UiFrame

\* handleMouseUp, registered on the window while a clip is dragged
HandleMouseUp(throws) ==
  /\ engine = "utils"
  /\ draggingClipId # 0
  /\ IF uiIsPlaying
     THEN /\ playCount < MaxPlays
          /\ Restart(clips, currentTime, throws)
          /\ rendered' = NoRender
     ELSE EngineIdle
  /\ draggingClipId' = 0
  /\ uiLast' = [UiOp("release") EXCEPT !.at = currentTime]
  /\ UNCHANGED <<clips, currentTime, selectedClipId, uiIsPlaying>>
  /\ UiFrame

\* updateTimeline, the animation frame callback
UpdateTimeline ==
  /\ engine = "utils"
  /\ uiIsPlaying
  /\ currentTime' = GetCurrentTime
  /\ uiLast' = UiOp("frame")
  /\ EngineIdle
  /\ UNCHANGED <<clips, selectedClipId, draggingClipId, uiIsPlaying>>
  /\ UiFrame

\* onTimelineClick of src/App.tsx
SvcTimelineClick(t) ==
  /\ engine = "services"
  /\ currentTime' = t
  /\ uiLast' = [UiOp("click") EXCEPT !.at = t]
  /\ EngineIdle
  /\ UNCHANGED <<clips, selectedClipId, draggingClipId, uiIsPlaying>>
  /\ UiFrame

\* splitClip of src/App.tsx; the services engine plays every buffer at its own rate
SplitClip ==
  /\ engine = "services"
  /\ selectedClipId # 0
  /\ HasClip(clips, selectedClipId)
  /\ Len(clips) < MaxClips
  /\ LET clip == FindClip(clips, selectedClipId)
     IN /\ InsideClip(clip, 2, currentTime)
        /\ history' = PushHistory
        /\ future' = <<>>
        /\ clips' = SplitClips(clips, clip, 2, currentTime)
  /\ selectedClipId' = 0
  /\ uiLast' = UiOp("split")
  /\ EngineIdle
  /\ UNCHANGED <<currentTime, draggingClipId, uiIsPlaying>>
  /\ UNCHANGED <<engine, tracks, clock, retired, bufferMap, firstRender, abuffer, wav>>
  /\ UNCHANGED recVars

\* The clock of the audio context advances; the step is none of the App's handlers
UiTick ==
  /\ Tick
  /\ uiLast' = UiOp("none")
  /\ UNCHANGED <<history, future, currentTime, selectedClipId, draggingClipId,
                 uiIsPlaying>>

UiInit == Boot(RenderClipLists, Rates, LogOff) /\ abuffer = NoBuffer

UiNext ==
  \/ \E throws \in BOOLEAN : HandlePlayPause(throws)
  \/ \E throws \in BOOLEAN : HandleStop(throws)
  \/ \E time \in ClickTimes, throws \in BOOLEAN : HandleTimelineClick(time, throws)
  \/ \E throws \in BOOLEAN : HandleSplitClip(throws)
  \/ \E throws \in BOOLEAN : HandleDeleteClip(throws)
  \/ \E clipId \in 1..MaxClips : HandleClipMouseDown(clipId)
  \/ \E newStartTime \in DropTimes, targetTrackId \in EditedTracks :
       HandleMouseMove(newStartTime, targetTrackId)
  \/ \E throws \in BOOLEAN : HandleMouseUp(throws)
  \/ UpdateTimeline
  \/ \E t \in ClickTimes : SvcTimelineClick(t)
  \/ \E id \in 1..MaxClips : SelectClip(id)
  \/ SplitClip
  \/ UiTick

UiSpec == UiInit /\ [][UiNext]_vars

\* ---------------------------------------------------------------- C26
\* The step is a split; the clip split, the rate its timeline extent is drawn at,
\* and the two halves after the step
SplitDone == uiLast'.op = "split"
SplitOriginal == FindClip(clips, selectedClipId)
ExtentRate ==
  IF engine = "utils" /\ HasTrack(SplitOriginal) THEN PlaybackRate(TrackOf(SplitOriginal))
  ELSE 2
LeftHalf == FindClip(clips', SplitOriginal.id)
RightHalf == clips'[Len(clips')]
InBuffer(clip) ==
  0 <= clip.offset /\ clip.offset + clip.duration <= clip.buffer.duration

\* C26: a split happens only with the playhead p strictly inside the timeline extent
\* of the selected clip; it replaces the clip by two clips with durations > 0 that sum
\* to the original duration; the left half keeps startTime and offset, the right half
\* starts at p with offset = original offset + left duration; the left half ends on
\* the timeline where the right half starts, and both halves lie inside the buffer
\* when the original clip does.
C26_SplitHalves ==
  [][SplitDone =>
       /\ SplitOriginal.startTime < currentTime
       /\ currentTime * ExtentRate < SplitOriginal.startTime * ExtentRate
                                       + 2 * SplitOriginal.duration
       /\ Len(clips') = Len(clips) + 1
       /\ \A i \in 1..Len(clips) : clips[i].id # SplitOriginal.id => clips'[i] = clips[i]
       /\ \A i \in 1..Len(clips) : clips[i].id # RightHalf.id
       /\ LeftHalf.duration > 0
       /\ RightHalf.duration > 0
       /\ LeftHalf.duration + RightHalf.duration = SplitOriginal.duration
       /\ LeftHalf.startTime = SplitOriginal.startTime
       /\ LeftHalf.offset = SplitOriginal.offset
       /\ RightHalf.startTime = currentTime
       /\ RightHalf.offset = SplitOriginal.offset + LeftHalf.duration
       /\ LeftHalf.startTime * ExtentRate + 2 * LeftHalf.duration
            = RightHalf.startTime * ExtentRate
       /\ RightHalf.trackId = SplitOriginal.trackId
       /\ RightHalf.buffer = SplitOriginal.buffer
       /\ InBuffer(SplitOriginal) => InBuffer(LeftHalf) /\ InBuffer(RightHalf)]_vars

\* A clip of a track played at double speed was split while the transport ran
C26_Witness ==
  /\ uiLast.op = "split"
  /\ isPlaying
  /\ Len(clips) = 3
  /\ clips[3].startTime = 1
  /\ clips[1].duration = 2 /\ clips[3].duration = 2
  /\ tracks[1].playbackRate = 4

\* ---------------------------------------------------------------- C27
\* leftInt16[i] = (l < 0 ? l * 0x8000 : l * 0x7FFF) of renderMp3, for
\* l = Math.max(-1, Math.min(1, left[i])): the store into the Int16Array drops the
\* fraction
Mp3Int16(sample) ==
  LET l == Clamp(sample)
  IN IF l < 0 THEN Trunc(l * NegScale, SampleUnit) ELSE Trunc(l * PosScale, SampleUnit)

\* trunc(s * 32768) for s < 0 and trunc(s * 32767) for s >= 0, s a clamped sample
LinearQuantized(s) ==
  IF s < 0 THEN Trunc(s * 32768, SampleUnit) ELSE Trunc(s * 32767, SampleUnit)

\* C27: for every sample, bufferToWav stores trunc(s * 32768) when the clamped sample
\* s is negative and trunc(s * 32767) otherwise, and that is the 16-bit value
\* renderMp3 gives the MP3 encoder for the same sample.
C27_ExportsQuantizeAlike ==
  wav # <<>> =>
    \A k \in 1..Converted :
      LET s == Max(-SampleUnit, Min(SampleUnit, InputOf(k)))
      IN /\ StoredValues[k] = LinearQuantized(s)
         /\ StoredValues[k] = Mp3Int16(InputOf(k))

\* ---------------------------------------------------------------- C28
\* The step is the completion handler of a stopRecording of the utils engine
Teardown == recLast'.op = "teardown"
\* The promise of the p-th stopRecording call that found a recorder
StopPending(p) ==
  engine = "utils" /\ p <= Len(promises) /\ promises[p].state = "pending"
StopResolved(p) ==
  engine = "utils" /\ p <= Len(promises) /\ promises[p].state = "resolved"

\* C28: whatever the order of startRecording, stopRecording, the recorder's stop event
\* and the decode, the completion handler of a stopRecording stops the stream of, and
\* unregisters, no recorder but the one the call was made on, and every promise of
\* stopRecording is resolved in the end.
C28_TeardownOwnSessionAndResolve ==
  /\ [][Teardown => recLast'.torn \in {0, recLast'.recorder}]_vars
  /\ \A p \in 1..MaxRecCalls : StopPending(p) ~> StopResolved(p)

\* ---------------------------------------------------------------- C29
\* C29: in every state the utils engine reaches by play, stop, updateTrackParams and
\* the completion callbacks of voices, the active set is empty when the engine is not
\* playing, and every voice of the set was created by the latest play call.
C29_ActiveSetBelongsToThePlayback ==
  engine = "utils" =>
    /\ ~isPlaying => activeSources = {}
    /\ \A v \in activeSources : v.id[1] = playCount

\* C29 witness: the second playback runs with voices in the set, after the
\* completion callback of a voice has run
C29_Witness ==
  /\ engine = "utils"
  /\ isPlaying
  /\ playCount > 1
  /\ activeSources # {}
  /\ retired # {}

\* ---------------------------------------------------------------- C30
\* The step is a transport handler of src/unnamed/part_001; it is one of those that
\* restart a running playback at a position they choose
TransportHandlers == {"playPause", "stop", "click", "split", "delete", "release"}
HandlerDone == engine = "utils" /\ uiLast'.op \in TransportHandlers
RestartingDone ==
  HandlerDone /\ uiIsPlaying /\ uiLast'.op \in {"click", "split", "delete"}

\* C30: when a transport handler (play/pause, stop, timeline click, split, delete,
\* drag release) has run, the App's isPlaying equals the engine's; a timeline click,
\* split or delete made while playing leaves the engine playing at the position the
\* handler restarted from, with exactly the clips left that are eligible there
\* scheduled anew: future clips at their distance from the position, straddling clips
\* at once from the buffer time elapsed.
C30_TransportFlagsAgree ==
  [][/\ HandlerDone => uiIsPlaying' = isPlaying'
     /\ RestartingDone =>
          /\ isPlaying'
          /\ GetCurrentTime' = uiLast'.at
          /\ uiLast'.op = "click" => uiLast'.at = currentTime'
          /\ uiLast'.op \in {"split", "delete"} => uiLast'.at = GetCurrentTime
          /\ \A v \in activeSources' : v.id[1] = playCount' /\ v.id \notin ended'
          /\ \A v \in activeSources : v.id \in ended'
          /\ \A clip \in ClipSet' :
               /\ Cardinality(VoicesOf(clip)') =
                    IF Eligible(clip, uiLast'.at) THEN 1 ELSE 0
               /\ \A v \in VoicesOf(clip)' :
                    /\ v.when = clock + Max(clip.startTime - uiLast'.at, 0)
                    /\ v.offset = ReadOffset(clip, uiLast'.at)
                    /\ v.duration = Remaining(clip, uiLast'.at)]_vars

\* C30 witness: a clip was split while the transport ran, the playback restarted at a
\* position past the start with voices for both halves
C30_Witness ==
  /\ engine = "utils"
  /\ uiLast.op = "split"
  /\ uiIsPlaying /\ isPlaying
  /\ uiLast.at > 0
  /\ Cardinality(activeSources) > 1
  /\ \E v \in activeSources : v.id[2] = 3

====
